---------------------------- MODULE Spec2Model ----------------------------
(***************************************************************************)
(* Photobook (src/app.js): the image upload pipeline, its HEIC decode      *)
(* fallback chain, the VideoDecoder adapter, and the ISOBMFF box parser.   *)
(*                                                                         *)
(* The specifications of the module:                                       *)
(*   Spec         - the book, one upload, readImageToDataURL and the       *)
(*                  decode adapter;                                        *)
(*   SpecDecode   - two concurrent uploads and their decoders;             *)
(*   SpecParse    - parseBoxes over buffers built from box descriptions,   *)
(*                  one loop iteration per step;                           *)
(*   SpecParseAny - parseBoxes over buffers of arbitrary words and         *)
(*                  arbitrary ranges;                                      *)
(*   SpecHeic     - decodeHEICwithVideoDecoder over container fixtures,    *)
(*                  one stage of the function per step;                    *)
(*   SpecLayout   - the book with photo uploads and setLayout;             *)
(*   SpecRead     - a shared book in read mode: opening and page flips;    *)
(*   SpecEdit     - navigation, addPages, deletePage, the tray, reset and  *)
(*                  import;                                                *)
(*   SpecFlip     - page flips while an upload completes, the flip's       *)
(*                  events weakly fair;                                    *)
(*   SpecCrop     - photos of one page and their crops.                    *)
(* Indices are the source's (0-based); sequences are 1-based, so element i *)
(* of a JavaScript array a is a[i+1] here.                                 *)
(***************************************************************************)
EXTENDS Integers, Sequences, FiniteSets, TLC

(* ------------------------------ bounds -------------------------------- *)

\* Decoder callbacks (output, error, flush settlement) delivered per attempt.
MaxCallbacks == 3

\* Well-formed boxes in a generated buffer, before its tail.
MaxBoxes == 2

\* 32-bit words in a buffer of arbitrary contents.
MaxWords == 4

\* Spreads of the book, the cover included: addPages stops there.
MaxSpreads == 4

\* Extents of one iloc item in a container fixture.
MaxExtents == 2

\* NAL units in one hvcC array, and in the coded picture, of a fixture.
MaxNals == 2

(* ------------------------------ values -------------------------------- *)

Null == "null"
Undefined == "undefined"

\* trayDragIdx = null: no spread is being dragged.
NoDrag == -1

\* The data URL an upload's decode produces.
DataURL(i) == IF i = 1 THEN "data:1" ELSE "data:2"

Falsy(v) == v = Null \/ v = Undefined

(* ------------------------------ state --------------------------------- *)

VARIABLES
  spreads,       \* the book: cover, then spreads
  current,       \* index of the spread shown
  animating,     \* a page flip is in flight
  bookMode,      \* "closed" | "opening" | "open"
  flip,          \* the flip started by go(): its closure variables
  saveTimer,     \* scheduleSave's timer is pending
  isReadMode,    \* the book shown was loaded from a ?share= link
  mainRecord,    \* whose book the persisted record holds: "own" | "shared"
  trayDragIdx,   \* index of the spread being dragged within the tray
  heicToast,     \* the #heic-toast element is in the document
  hasVideoDecoder, \* typeof VideoDecoder !== 'undefined'
  up,            \* per upload: the handler and readImageToDataURL
  vd,            \* per upload: decodeHEICwithVideoDecoder's promise closure
  data,          \* parseBoxes: the byte buffer d
  ps,            \* parseBoxes: s
  pe,            \* parseBoxes: e
  p,             \* parseBoxes: the scan position
  l,             \* parseBoxes: the boxes found so far
  ppc,           \* parseBoxes: "loop" | "done"
  gen,           \* the box descriptions the buffer was built from
  heic           \* decodeHEICwithVideoDecoder: its locals and position

\* The uploads in flight or finished: invocations of a file-input change handler.
Uploads == DOMAIN up

editVars == <<isReadMode, mainRecord, trayDragIdx>>
bookVars == <<spreads, current, animating, bookMode, flip, saveTimer,
              isReadMode, mainRecord, trayDragIdx>>
uploadVars == <<heicToast, hasVideoDecoder, up, vd>>
parseVars == <<data, ps, pe, p, l, ppc, gen, heic>>
vars == <<spreads, current, animating, bookMode, flip, saveTimer,
          isReadMode, mainRecord, trayDragIdx, heicToast, hasVideoDecoder, up, vd, data, ps, pe, p, l, ppc, gen, heic>>

(* --------------------------- the book --------------------------------- *)

\* let spreads = [...] ; let current = 0 ; let animating = false
\* The field id stands for the identity of the object: two spreads with equal
\* contents are still two objects.
InitialSpreads ==
  << [type |-> "cover", title |-> "My Photobook", sub |-> "Paris 2026",
      photo |-> Null, imprint |-> "", id |-> 0],
     [type |-> "spread", id |-> 1,
      left  |-> [layout |-> "single", photos |-> <<Null>>, caption |-> ""],
      right |-> [layout |-> "two", photos |-> <<Null, Null>>, caption |-> ""]],
     [type |-> "spread", id |-> 2,
      left  |-> [layout |-> "two", photos |-> <<Null, Null>>, caption |-> ""],
      right |-> [layout |-> "single", photos |-> <<Null>>, caption |-> ""]] >>

NoFlip == [fc |-> FALSE, polling |-> FALSE, switched |-> FALSE, next |-> 0]

Sides == {"left", "right"}

\* spreads[si][side]
Page(si, side) == IF side = "left" THEN spreads[si + 1].left ELSE spreads[si + 1].right

\* F applied to the value of v, with v computed once.
Once(v, F(_)) == CHOOSE r \in { F(x) : x \in {v} } : TRUE

\* a[i] = v on a JavaScript array: an index past the end extends the array.
ArraySet(a, i, v) ==
  IF i < Len(a) THEN [a EXCEPT ![i + 1] = v]
  ELSE a \o [k \in 1..(i - Len(a)) |-> Undefined] \o <<v>>

\* spreads[si][side].photos[pi] = v
SetPhoto(si, side, pi, v) ==
  IF side = "left"
  THEN [spreads EXCEPT ![si + 1].left.photos = ArraySet(@, pi, v)]
  ELSE [spreads EXCEPT ![si + 1].right.photos = ArraySet(@, pi, v)]

InitBook ==
  /\ spreads = InitialSpreads
  /\ current = 0
  /\ animating = FALSE
  /\ bookMode = "closed"
  /\ flip = NoFlip
  /\ saveTimer = FALSE
  /\ isReadMode = FALSE
  /\ mainRecord = "own"
  /\ trayDragIdx = NoDrag

\* render(): book.innerHTML = '' takes the flipper of a flip in flight out of
\* the document. Its animation is cancelled: animationend is not dispatched,
\* and the currentTime pollMidpoint reads is null from then on, so the
\* midpoint is not reached either.
render(f) == [f EXCEPT !.fc = FALSE, !.polling = FALSE]

\* openBook(): the click on "Open Book" starts the cover animation.
openBook ==
  /\ bookMode = "closed"
  /\ bookMode' = "opening"
  /\ UNCHANGED <<spreads, current, animating, flip, saveTimer>>
  /\ UNCHANGED editVars
  /\ UNCHANGED uploadVars /\ UNCHANGED parseVars

\* openBook's animationend handler:
\*   bookMode = 'open'; if (isReadMode) current = 0; render().
coverOpenEnd ==
  /\ bookMode = "opening"
  /\ bookMode' = "open"
  /\ current' = IF isReadMode THEN 0 ELSE current
  /\ flip' = render(flip)
  /\ UNCHANGED <<spreads, animating, saveTimer>>
  /\ UNCHANGED editVars
  /\ UNCHANGED uploadVars /\ UNCHANGED parseVars

\* go(dir): the nav buttons and the arrow keys.
go(dir) ==
  /\ bookMode = "open"
  /\ ~animating
  /\ LET next == current + dir IN
       /\ ~(next < 0 \/ next >= Len(spreads))
       /\ animating' = TRUE
       /\ flip' = [fc |-> TRUE, polling |-> TRUE, switched |-> FALSE, next |-> next]
  /\ UNCHANGED <<spreads, current, bookMode, saveTimer>>
  /\ UNCHANGED editVars
  /\ UNCHANGED uploadVars /\ UNCHANGED parseVars

\* pollMidpoint, on the animation frame where t >= duration * 0.5.
pollMidpoint ==
  /\ flip.polling
  /\ ~flip.switched
  /\ flip' = [flip EXCEPT !.switched = TRUE, !.polling = FALSE]
  /\ current' = flip.next
  /\ saveTimer' = TRUE
  /\ UNCHANGED <<spreads, animating, bookMode>>
  /\ UNCHANGED editVars
  /\ UNCHANGED uploadVars /\ UNCHANGED parseVars

\* finishFlip, on the flipper's animationend.
finishFlip ==
  /\ flip.fc
  /\ flip' = [flip EXCEPT !.fc = FALSE]
  /\ animating' = FALSE
  /\ UNCHANGED <<spreads, current, bookMode, saveTimer>>
  /\ UNCHANGED editVars
  /\ UNCHANGED uploadVars /\ UNCHANGED parseVars

\* scheduleSave's timer fires: persistSave() puts { spreads, current } under
\* 'main' (or under photobook_v1 in localStorage): the book in memory, which
\* in read mode is the shared one.
persistSave ==
  /\ saveTimer
  /\ saveTimer' = FALSE
  /\ mainRecord' = IF isReadMode THEN "shared" ELSE "own"
  /\ UNCHANGED <<spreads, current, animating, bookMode, flip>>
  /\ UNCHANGED <<isReadMode, trayDragIdx>>
  /\ UNCHANGED uploadVars /\ UNCHANGED parseVars

\* const LAYOUT_PHOTO_COUNT = { single:1, two:2, trio:3, quad:4 }
Layouts == {"single", "two", "trio", "quad"}

LAYOUT_PHOTO_COUNT(layout) ==
  CASE layout = "single" -> 1
    [] layout = "two" -> 2
    [] layout = "trio" -> 3
    [] OTHER -> 4

\* p.photos.filter(x => x)
existing(photos) == SelectSeq(photos, LAMBDA x : ~Falsy(x))

\* Array.from({ length: LAYOUT_PHOTO_COUNT[layout] }, (_, i) => existing[i] || null)
\* and p.layout = layout.
relaid(page, layout) ==
  LET n == LAYOUT_PHOTO_COUNT(layout)
  IN [page EXCEPT !.photos = [k \in 1..n |-> IF k <= Len(existing(page.photos))
                                             THEN existing(page.photos)[k] ELSE Null],
               !.layout = layout]

\* A layout button of the spread shown (buildLayoutBar): setLayout(si, side, layout).
\* Both exits of the function call scheduleSave().
setLayout(si, side, layout) ==
  /\ bookMode = "open"
  /\ si = current
  /\ si >= 1
  /\ si < Len(spreads)
  /\ spreads' = IF side = "left"
                THEN [spreads EXCEPT ![si + 1].left = relaid(@, layout)]
                ELSE [spreads EXCEPT ![si + 1].right = relaid(@, layout)]
  /\ saveTimer' = TRUE
  /\ UNCHANGED <<current, animating, bookMode, flip>>
  /\ UNCHANGED editVars
  /\ UNCHANGED uploadVars /\ UNCHANGED parseVars

(* ------------------------- editing the book --------------------------- *)

\* a.splice(i, 0, x) and a.splice(i, 1) on a JavaScript array.
\* A start past the end is the end (splice clamps its start).
InsertAt(a, i, x) ==
  LET j == IF i > Len(a) THEN Len(a) ELSE i
  IN SubSeq(a, 1, j) \o <<x>> \o SubSeq(a, j + 1, Len(a))

RemoveAt(a, i) ==
  IF i >= Len(a) THEN a ELSE SubSeq(a, 1, i) \o SubSeq(a, i + 2, Len(a))

\* An identity no spread of the book has.
FreshId(a) == CHOOSE n \in 1..(Len(a) + 1) : \A k \in 1..Len(a) : a[k].id # n

\* The object literal addPages inserts.
NewSpread(n) ==
  [type |-> "spread", id |-> n,
   left  |-> [layout |-> "single", photos |-> <<Null>>, caption |-> ""],
   right |-> [layout |-> "two", photos |-> <<Null, Null>>, caption |-> ""]]

\* goTo(target): a click on item target of the tray; go(dir, null, target).
goTo(target) ==
  /\ bookMode = "open"
  /\ trayDragIdx = NoDrag
  /\ target \in 0..(Len(spreads) - 1)
  /\ target # current
  /\ ~animating
  /\ animating' = TRUE
  /\ flip' = [fc |-> TRUE, polling |-> TRUE, switched |-> FALSE, next |-> target]
  /\ UNCHANGED <<spreads, current, bookMode, saveTimer>>
  /\ UNCHANGED editVars
  /\ UNCHANGED uploadVars /\ UNCHANGED parseVars

\* addPages(): if (animating) return; spreads.splice(current + 1, 0, {...}); go(1).
addPages ==
  /\ bookMode = "open"
  /\ ~isReadMode
  /\ trayDragIdx = NoDrag
  /\ Len(spreads) < MaxSpreads
  /\ ~animating
  /\ spreads' = InsertAt(spreads, current + 1, NewSpread(FreshId(spreads)))
  /\ LET next == current + 1 IN
       IF next < 0 \/ next >= Len(spreads')
       THEN UNCHANGED <<animating, flip>>
       ELSE /\ animating' = TRUE
            /\ flip' = [fc |-> TRUE, polling |-> TRUE, switched |-> FALSE, next |-> next]
  /\ UNCHANGED <<current, bookMode, saveTimer>>
  /\ UNCHANGED editVars
  /\ UNCHANGED uploadVars /\ UNCHANGED parseVars

\* Variant: the last spread may be deleted too.
deletePageToCover == animating \/ current = 0

\* What deletePage() returns early on.
deletePageReturns == animating \/ current = 0 \/ Len(spreads) <= 2

\* deletePage(), its confirm() accepted: spreads.splice(current, 1), current
\* clamped to the last index, render(), scheduleSave().
deletePage ==
  /\ bookMode = "open"
  /\ ~isReadMode
  /\ trayDragIdx = NoDrag
  /\ IF deletePageReturns
     THEN UNCHANGED <<spreads, current, flip, saveTimer>>
     ELSE /\ spreads' = RemoveAt(spreads, current)
          /\ current' = IF current >= Len(spreads) - 1 THEN Len(spreads) - 2 ELSE current
          /\ flip' = render(flip)
          /\ saveTimer' = TRUE
  /\ UNCHANGED <<animating, bookMode>>
  /\ UNCHANGED editVars
  /\ UNCHANGED uploadVars /\ UNCHANGED parseVars

\* dragstart on item i of the tray: the cover and read mode are refused.
trayDragStart(i) ==
  /\ bookMode = "open"
  /\ trayDragIdx = NoDrag
  /\ i \in 0..(Len(spreads) - 1)
  /\ ~(isReadMode \/ i = 0)
  /\ trayDragIdx' = i
  /\ UNCHANGED <<spreads, current, animating, bookMode, flip, saveTimer>>
  /\ UNCHANGED <<isReadMode, mainRecord>>
  /\ UNCHANGED uploadVars /\ UNCHANGED parseVars

\* dragend: the drag is given up without a drop on an item.
trayDragEnd ==
  /\ trayDragIdx # NoDrag
  /\ trayDragIdx' = NoDrag
  /\ UNCHANGED <<spreads, current, animating, bookMode, flip, saveTimer>>
  /\ UNCHANGED <<isReadMode, mainRecord>>
  /\ UNCHANGED uploadVars /\ UNCHANGED parseVars

\* Variant: current is left alone by a reorder.
followed(cur, a, newPos) == cur

\* The drop handler's adjustment of current after moving index a to newPos.
following(cur, a, newPos) ==
  IF cur = a THEN newPos
  ELSE IF cur > a /\ cur <= newPos THEN cur - 1
  ELSE IF cur < a /\ cur >= newPos THEN cur + 1
  ELSE cur

\* drop on item i of the tray: the dragged spread is spliced out and back in
\* at i, current follows, then render(), renderTray() and scheduleSave().
trayDrop(i) ==
  /\ i \in 0..(Len(spreads) - 1)
  /\ ~(isReadMode \/ trayDragIdx = NoDrag \/ i = 0 \/ i = trayDragIdx)
  /\ LET moved == spreads[trayDragIdx + 1]
         newPos == i
     IN /\ spreads' = InsertAt(RemoveAt(spreads, trayDragIdx), newPos, moved)
        /\ current' = following(current, trayDragIdx, newPos)
  /\ trayDragIdx' = NoDrag
  /\ flip' = render(flip)
  /\ saveTimer' = TRUE
  /\ UNCHANGED <<animating, bookMode>>
  /\ UNCHANGED <<isReadMode, mainRecord>>
  /\ UNCHANGED uploadVars /\ UNCHANGED parseVars

\* resetBook(), its confirm() accepted: the timer is cleared, the persisted
\* record is deleted, the book is the initial one again.
resetBook ==
  /\ ~isReadMode
  /\ trayDragIdx = NoDrag
  /\ saveTimer' = FALSE
  /\ mainRecord' = "none"
  /\ spreads' = InitialSpreads
  /\ current' = 0
  /\ flip' = render(flip)
  /\ UNCHANGED <<animating, bookMode>>
  /\ UNCHANGED <<isReadMode, trayDragIdx>>
  /\ UNCHANGED uploadVars /\ UNCHANGED parseVars

\* getBookData(): what exportBook writes to a file.
getBookData == [spreads |-> spreads, current |-> current]

\* importBook: the file parses, has spreads, and the confirm() is accepted:
\* loadBookData(d) takes d.spreads and d.current as they are, then render()
\* and scheduleSave().
importBook(d) ==
  /\ ~isReadMode
  /\ trayDragIdx = NoDrag
  /\ spreads' = d.spreads
  /\ current' = d.current
  /\ flip' = render(flip)
  /\ saveTimer' = TRUE
  /\ UNCHANGED <<animating, bookMode>>
  /\ UNCHANGED editVars
  /\ UNCHANGED uploadVars /\ UNCHANGED parseVars

(* ------------------------------ crops --------------------------------- *)

\* getCrop's default, and the value of an entry of crops that was never set.
DefaultCrop == [scale |-> 1, ox |-> 0, oy |-> 0]

NoCrop == [scale |-> 0, ox |-> 0, oy |-> 0]

\* page.crops, which a page has from its first setCrop or swap on.
CropsOf(page) == IF "crops" \in DOMAIN page THEN page.crops ELSE <<>>

\* crops[pi] = c, on the array or on the [] made for a page without one.
CropSet(page, pi, c) ==
  LET a == CropsOf(page)
  IN [layout |-> page.layout, photos |-> page.photos, caption |-> page.caption,
      crops |-> IF pi < Len(a) THEN [a EXCEPT ![pi + 1] = c]
                ELSE a \o [k \in 1..(pi - Len(a)) |-> NoCrop] \o <<c>>]

\* The book s with spreads[si][side] = page.
SetPage(s, si, side, page) ==
  IF side = "left" THEN [s EXCEPT ![si + 1].left = page]
  ELSE [s EXCEPT ![si + 1].right = page]

PageOf(s, si, side) == IF side = "left" THEN s[si + 1].left ELSE s[si + 1].right

\* page.crops[pi], undefined being NoCrop.
CropAt(page, pi) ==
  IF pi < Len(CropsOf(page)) THEN CropsOf(page)[pi + 1] ELSE NoCrop

\* getCrop(si, side, pi): spreads[si]?.[side]?.crops?.[pi] || { scale:1, ox:0, oy:0 }
getCrop(si, side, pi) ==
  IF CropAt(Page(si, side), pi) = NoCrop THEN DefaultCrop ELSE CropAt(Page(si, side), pi)

\* The crop the user frames a photo with: each photo has a framing of its own.
CropFor(photo) == [scale |-> IF photo = DataURL(1) THEN 2 ELSE 3, ox |-> 0, oy |-> 0]

\* A slot of the spread shown holds a photo.
HasPhoto(side, pi) ==
  /\ bookMode = "open"
  /\ current >= 1
  /\ current < Len(spreads)
  /\ pi < Len(Page(current, side).photos)
  /\ ~Falsy(Page(current, side).photos[pi + 1])

\* applyCrop() in the crop modal of a photo of the spread shown:
\* setCrop(si, side, pi, crop), which calls scheduleSave(), then render().
applyCrop(side, pi) ==
  /\ HasPhoto(side, pi)
  /\ spreads' = SetPage(spreads, current, side,
                        CropSet(Page(current, side), pi,
                                CropFor(Page(current, side).photos[pi + 1])))
  /\ saveTimer' = TRUE
  /\ flip' = render(flip)
  /\ UNCHANGED <<current, animating, bookMode>>
  /\ UNCHANGED editVars
  /\ UNCHANGED uploadVars /\ UNCHANGED parseVars

\* The remove button of a photo: photos[pi] = null; render(); scheduleSave().
removePhoto(side, pi) ==
  /\ HasPhoto(side, pi)
  /\ spreads' = SetPhoto(current, side, pi, Null)
  /\ saveTimer' = TRUE
  /\ flip' = render(flip)
  /\ UNCHANGED <<current, animating, bookMode>>
  /\ UNCHANGED editVars
  /\ UNCHANGED uploadVars /\ UNCHANGED parseVars

\* swapPhotos(src, dst) for two slots of spread si: the photos change places
\* and so do the crops, a missing crop being taken as the default.
swapPhotos(s, si, src, dst) ==
  LET srcPhoto == PageOf(s, si, src.side).photos[src.pi + 1]
      dstPhoto == PageOf(s, si, dst.side).photos[dst.pi + 1]
      srcCrop == IF CropAt(PageOf(s, si, src.side), src.pi) = NoCrop
                 THEN DefaultCrop ELSE CropAt(PageOf(s, si, src.side), src.pi)
      dstCrop == IF CropAt(PageOf(s, si, dst.side), dst.pi) = NoCrop
                 THEN DefaultCrop ELSE CropAt(PageOf(s, si, dst.side), dst.pi)
      s1 == SetPage(s, si, src.side,
                    [PageOf(s, si, src.side) EXCEPT !.photos[src.pi + 1] = dstPhoto])
      s2 == SetPage(s1, si, dst.side,
                    [PageOf(s1, si, dst.side) EXCEPT !.photos[dst.pi + 1] = srcPhoto])
      s3 == SetPage(s2, si, src.side, CropSet(PageOf(s2, si, src.side), src.pi, dstCrop))
  IN SetPage(s3, si, dst.side, CropSet(PageOf(s3, si, dst.side), dst.pi, srcCrop))

\* The slots a spread is drawn with.
Slot(side, pi) == [side |-> side, pi |-> pi]

\* A photo of the spread shown is dropped on another slot of it:
\* swapPhotos(dragSrc, dst); render().
dropPhoto(src, dst) ==
  /\ HasPhoto(src.side, src.pi)
  /\ dst.pi < Len(Page(current, dst.side).photos)
  /\ src # dst
  /\ spreads' = swapPhotos(spreads, current, src, dst)
  /\ flip' = render(flip)
  /\ UNCHANGED <<current, animating, bookMode, saveTimer>>
  /\ UNCHANGED editVars
  /\ UNCHANGED uploadVars /\ UNCHANGED parseVars

(* ----------------------- files and errors ----------------------------- *)

\* File names as character sequences, so that the extension test is computed.
Name_jpg == <<"a", ".", "j", "p", "g">>
Name_HEIC == <<"b", ".", "H", "E", "I", "C">>
Name_heif == <<"c", ".", "h", "e", "i", "f">>
Name_plain == <<"h", "e", "i", "c">>

\* The files a user may choose: { name, type }.
Files ==
  { [name |-> Name_jpg, type |-> "image/jpeg"],
    [name |-> Name_HEIC, type |-> ""],
    [name |-> Name_heif, type |-> "image/heic"],
    [name |-> Name_plain, type |-> "image/heif"],
    [name |-> Name_plain, type |-> "image/png"] }

NoFile == [name |-> <<>>, type |-> ""]

\* The /i flag of the extension pattern.
LowerCase(c) ==
  CASE c = "H" -> "h" [] c = "E" -> "e" [] c = "I" -> "i" [] c = "C" -> "c"
    [] c = "F" -> "f" [] OTHER -> c

\* /\.(heic|heif)$/i.test(name)
ExtensionTest(name) ==
  /\ Len(name) >= 5
  /\ LET tail == [k \in 1..5 |-> LowerCase(name[Len(name) - 5 + k])] IN
       tail \in { <<".", "h", "e", "i", "c">>, <<".", "h", "e", "i", "f">> }

\* Variant: the classification gate lets every file through.
isHEICAny(file) == TRUE

\* const isHEIC = /\.(heic|heif)$/i.test(name) || mime === 'image/heic' || mime === 'image/heif'
isHEIC(file) ==
  ExtensionTest(file.name) \/ file.type = "image/heic" \/ file.type = "image/heif"

\* The errors decodeHEICwithVideoDecoder throws while parsing the container.
ParseErrors ==
  { "No meta", "No iloc", "Primary item not found in iloc",
    "No iprp", "No ipco", "No hvcC" }

\* What the decoder hands to its error callback or rejects flush() with.
DecoderErrors == { "EncodingError" }

\* e.message throws a TypeError when e is null or undefined.
MessageThrows(e) == Falsy(e)

(* ----------------------- the upload handlers -------------------------- *)

IdleUpload ==
  [pc |-> "idle", file |-> NoFile, entry |-> "none", si |-> 0, side |-> "left",
   pi |-> 0, tiers |-> <<>>, failed |-> <<>>, result |-> "pending",
   msg |-> "none", escaped |-> FALSE]

IdleDecoder ==
  [constructed |-> FALSE, submitted |-> FALSE, done |-> FALSE,
   settled |-> "pending", settleCalls |-> 0, frames |-> 0,
   framesClosed |-> 0, closed |-> FALSE, flush |-> "none", events |-> 0,
   first |-> "none", drawnFrames |-> {}, error |-> "none"]

InitUpload(ids) ==
  /\ heicToast = FALSE
  /\ hasVideoDecoder \in BOOLEAN
  /\ up = [i \in ids |-> IdleUpload]
  /\ vd = [i \in ids |-> IdleDecoder]

\* What a handler's continuation leaves behind.
Effect(s, t, toast, m, esc) ==
  [spreads |-> s, saveTimer |-> t, heicToast |-> toast, msg |-> m, escaped |-> esc,
   rendered |-> FALSE]

\* The continuation has called render().
Rendering(eff) == [eff EXCEPT !.rendered = TRUE]

\* bindAll's file handler, catch(err): showHeicHelp() or alert(...).
pageCatch(err) ==
  IF MessageThrows(err)
  THEN Effect(spreads, saveTimer, heicToast, "none", TRUE)
  ELSE IF err = "HEIC_UNSUPPORTED"
       THEN Effect(spreads, saveTimer, TRUE, "heicHelp", FALSE)
       ELSE Effect(spreads, saveTimer, heicToast, "alert", FALSE)

\* bindAll's file handler after the await: the try block, then the catch.
pageHandler(i, u, res) ==
  IF res = "ok"
  THEN IF u.si < Len(spreads) /\ spreads[u.si + 1].type = "spread"
       THEN Rendering(Effect(SetPhoto(u.si, u.side, u.pi, DataURL(i)), TRUE,
                             heicToast, "none", FALSE))
       ELSE pageCatch("TypeError")
  ELSE pageCatch(res)

\* Variant: the cover handler assigns the slot on failure as well.
coverHandlerClearing(i, u, res) ==
  IF res = "ok"
  THEN Rendering(Effect([spreads EXCEPT ![1].photo = DataURL(i)], TRUE, heicToast,
                        "none", FALSE))
  ELSE Effect([spreads EXCEPT ![1].photo = Undefined], saveTimer, heicToast, "none", FALSE)

\* buildPage's cover file handler after the await: try { spreads[0].photo = ... } catch(_) {}
coverHandler(i, u, res) ==
  IF res = "ok"
  THEN Rendering(Effect([spreads EXCEPT ![1].photo = DataURL(i)], TRUE, heicToast,
                        "none", FALSE))
  ELSE Effect(spreads, saveTimer, heicToast, "none", FALSE)

\* readImageToDataURL has settled with res: the awaiting handler runs to its end
\* in the same microtask checkpoint.
Finish(i, u, res) ==
  LET eff == IF u.entry = "cover" THEN coverHandler(i, u, res)
             ELSE pageHandler(i, u, res)
  IN /\ spreads' = eff.spreads
     /\ saveTimer' = eff.saveTimer
     /\ heicToast' = eff.heicToast
     /\ flip' = IF eff.rendered THEN render(flip) ELSE flip
     /\ up' = [up EXCEPT ![i] = [u EXCEPT !.pc = "end", !.result = res,
                                           !.msg = eff.msg, !.escaped = eff.escaped]]

\* An empty slot of the spread shown carries a file input (buildSlot, buildPage).
SlotOffered(entry, si, side, pi) ==
  /\ bookMode = "open"
  /\ si = current
  /\ IF entry = "cover"
     THEN si = 0 /\ Falsy(spreads[1].photo)
     ELSE /\ si >= 1
          /\ si < Len(spreads)
          /\ pi < Len(Page(si, side).photos)
          /\ Falsy(Page(si, side).photos[pi + 1])

\* The change event of a file input: the handler runs up to its first await,
\* inside readImageToDataURL, on createImageBitmap(file).
uploadStart(i, entry, si, side, pi, f) ==
  /\ up[i].pc = "idle"
  /\ SlotOffered(entry, si, side, pi)
  /\ up' = [up EXCEPT ![i] =
              [IdleUpload EXCEPT !.pc = "bitmap", !.file = f, !.entry = entry,
                                 !.si = si, !.side = side, !.pi = pi,
                                 !.tiers = <<"bitmap">>]]
  /\ UNCHANGED <<heicToast, hasVideoDecoder, vd>>
  /\ UNCHANGED bookVars /\ UNCHANGED parseVars

pageUpload(i) ==
  \E side \in Sides, pi \in 0..1, f \in Files :
    uploadStart(i, "page", current, side, pi, f)

coverUpload(i) ==
  \E f \in Files : uploadStart(i, "cover", 0, "left", 0, f)

(* ----------------------- readImageToDataURL --------------------------- *)

\* createImageBitmap(file) resolves: return bitmapToDataURL(...).
bitmapResolve(i) ==
  /\ up[i].pc = "bitmap"
  /\ Finish(i, up[i], "ok")
  /\ UNCHANGED <<current, animating, bookMode, hasVideoDecoder, vd>>
  /\ UNCHANGED editVars
  /\ UNCHANGED parseVars

\* createImageBitmap(file) rejects: catch(_) {}, then imgTagDecode(file).
bitmapReject(i) ==
  /\ up[i].pc = "bitmap"
  /\ up' = [up EXCEPT ![i].pc = "img", ![i].tiers = Append(@, "img"),
                       ![i].failed = Append(@, "bitmap")]
  /\ UNCHANGED <<heicToast, hasVideoDecoder, vd>>
  /\ UNCHANGED bookVars /\ UNCHANGED parseVars

\* imgTagDecode: img.onload.
imgLoad(i) ==
  /\ up[i].pc = "img"
  /\ Finish(i, up[i], "ok")
  /\ UNCHANGED <<current, animating, bookMode, hasVideoDecoder, vd>>
  /\ UNCHANGED editVars
  /\ UNCHANGED parseVars

\* imgTagDecode: img.onerror rejects with 'img fail'. A non-HEIC file's promise is
\* the one returned; a HEIC file goes on to the VideoDecoder tier or throws.
imgError(i) ==
  /\ up[i].pc = "img"
  /\ LET u == [up[i] EXCEPT !.failed = Append(@, "img")] IN
       IF ~isHEIC(u.file)
       THEN Finish(i, u, "img fail")
       ELSE IF hasVideoDecoder
            THEN /\ up' = [up EXCEPT ![i] = [u EXCEPT !.pc = "buf",
                                                      !.tiers = Append(@, "vd")]]
                 /\ UNCHANGED <<spreads, saveTimer, heicToast, flip>>
            ELSE Finish(i, u, "HEIC_UNSUPPORTED")
  /\ UNCHANGED <<current, animating, bookMode, hasVideoDecoder, vd>>
  /\ UNCHANGED editVars
  /\ UNCHANGED parseVars

\* Variant: the tier's error is rethrown as it is.
rethrow(e) == e

\* catch(e) { console.warn('VideoDecoder:', e.message); } throw new Error('HEIC_UNSUPPORTED')
videoDecoderCatch(e) ==
  IF MessageThrows(e) THEN "TypeError" ELSE "HEIC_UNSUPPORTED"

(* ------------------ decodeHEICwithVideoDecoder ------------------------ *)

\* Variant: one completion flag at module level, shared by every attempt.
DoneShared(i) == \E j \in Uploads : vd[j].done

\* let done = false: the completion guard, local to one promise executor.
Done(i) == vd[i].done

\* res(...) and rej(e): a promise keeps its first settlement.
Resolve(v) ==
  [v EXCEPT !.settleCalls = @ + 1,
            !.settled = IF @ = "pending" THEN "resolved" ELSE @]

Reject(v, e) ==
  [v EXCEPT !.settleCalls = @ + 1,
            !.settled = IF @ = "pending" THEN "rejected" ELSE @,
            !.error = IF v.settled = "pending" THEN e ELSE @]

\* Variant: the output callback without its completion guard.
outputUnguarded(v, isDone) ==
  Resolve([v EXCEPT !.done = TRUE, !.frames = @ + 1,
                    !.drawnFrames = @ \cup {v.frames + 1},
                    !.framesClosed = @ + 1, !.closed = TRUE])

\* output: frame => { if (!done) { done = true; ctx.drawImage(frame,0,0); frame.close();
\*                    dec.close(); res(canvas.toDataURL(...)); } else frame.close(); }
outputCallback(v, isDone) ==
  IF ~isDone
  THEN Resolve([v EXCEPT !.done = TRUE, !.frames = @ + 1,
                         !.drawnFrames = @ \cup {v.frames + 1},
                         !.framesClosed = @ + 1, !.closed = TRUE])
  ELSE [v EXCEPT !.frames = @ + 1, !.framesClosed = @ + 1]

\* Variant: the error path marks completion and never rejects.
errorSwallowed(v, isDone, e) ==
  IF ~isDone THEN [v EXCEPT !.done = TRUE] ELSE v

\* error: e => { if (!done) { done = true; rej(e); } }
\* and dec.flush().catch(e => { if (!done) { done = true; rej(e); } })
errorCallback(v, isDone, e) ==
  IF ~isDone THEN Reject([v EXCEPT !.done = TRUE], e) ELSE v

\* The promise closure at the end of the executor: the decoder is constructed,
\* configured, fed the one key chunk, and flush() is pending.
Submitted ==
  [IdleDecoder EXCEPT !.constructed = TRUE, !.submitted = TRUE, !.flush = "pending"]

\* One more delivery by the decoder; its first settling delivery is remembered.
Tick(v, kind) ==
  [v EXCEPT !.events = @ + 1,
            !.first = IF @ = "none" /\ kind # "flushResolve" THEN kind ELSE @]

\* await decodeHEICwithVideoDecoder(file) inside readImageToDataURL: once the
\* promise v settles, the awaiting tier returns or falls to the final throw.
Continue(i, v) ==
  IF up[i].pc = "dec" /\ v.settled # "pending"
  THEN IF v.settled = "resolved"
       THEN Finish(i, up[i], "ok")
       ELSE Finish(i, [up[i] EXCEPT !.failed = Append(@, "vd")],
                   videoDecoderCatch(v.error))
  ELSE UNCHANGED <<spreads, saveTimer, heicToast, flip, up>>

\* file.arrayBuffer() resolves and the container parse throws e.
parseThrow(i) ==
  /\ up[i].pc = "buf"
  /\ \E e \in ParseErrors :
       Finish(i, [up[i] EXCEPT !.failed = Append(@, "vd")], videoDecoderCatch(e))
  /\ UNCHANGED <<current, animating, bookMode, hasVideoDecoder, vd>>
  /\ UNCHANGED editVars
  /\ UNCHANGED parseVars

\* The parse succeeds and the executor throws (new VideoDecoder, configure or
\* decode rejects its argument): the promise is rejected by its constructor.
executorThrow(i) ==
  /\ up[i].pc = "buf"
  /\ vd' = [vd EXCEPT ![i] = [IdleDecoder EXCEPT !.constructed = TRUE,
                                                 !.settled = "rejected",
                                                 !.error = "TypeError"]]
  /\ Finish(i, [up[i] EXCEPT !.failed = Append(@, "vd")],
            videoDecoderCatch("TypeError"))
  /\ UNCHANGED <<current, animating, bookMode, hasVideoDecoder>>
  /\ UNCHANGED editVars
  /\ UNCHANGED parseVars

\* The parse succeeds and the executor runs to its end.
submit(i) ==
  /\ up[i].pc = "buf"
  /\ vd' = [vd EXCEPT ![i] = Submitted]
  /\ up' = [up EXCEPT ![i].pc = "dec"]
  /\ UNCHANGED <<heicToast, hasVideoDecoder>>
  /\ UNCHANGED bookVars /\ UNCHANGED parseVars

CanDeliver(i) == vd[i].submitted /\ vd[i].events < MaxCallbacks

\* The decoder calls output(frame).
decoderOutput(i) ==
  /\ CanDeliver(i)
  /\ LET v == outputCallback(Tick(vd[i], "output"), Done(i)) IN
       /\ vd' = [vd EXCEPT ![i] = v]
       /\ Continue(i, v)
  /\ UNCHANGED <<current, animating, bookMode, hasVideoDecoder>>
  /\ UNCHANGED editVars
  /\ UNCHANGED parseVars

\* The decoder calls error(e).
decoderError(i) ==
  /\ CanDeliver(i)
  /\ \E e \in DecoderErrors :
       LET v == errorCallback(Tick(vd[i], "error"), Done(i), e) IN
         /\ vd' = [vd EXCEPT ![i] = v]
         /\ Continue(i, v)
  /\ UNCHANGED <<current, animating, bookMode, hasVideoDecoder>>
  /\ UNCHANGED editVars
  /\ UNCHANGED parseVars

\* dec.flush() rejects: the .catch handler runs.
flushReject(i) ==
  /\ CanDeliver(i)
  /\ vd[i].flush = "pending"
  /\ \E e \in DecoderErrors :
       LET v == errorCallback([Tick(vd[i], "flushReject") EXCEPT !.flush = "rejected"],
                              Done(i), e) IN
         /\ vd' = [vd EXCEPT ![i] = v]
         /\ Continue(i, v)
  /\ UNCHANGED <<current, animating, bookMode, hasVideoDecoder>>
  /\ UNCHANGED editVars
  /\ UNCHANGED parseVars

\* dec.flush() resolves: no handler is attached to its fulfilment.
flushResolve(i) ==
  /\ CanDeliver(i)
  /\ vd[i].flush = "pending"
  /\ vd' = [vd EXCEPT ![i] = [Tick(vd[i], "flushResolve") EXCEPT !.flush = "resolved"]]
  /\ UNCHANGED <<heicToast, hasVideoDecoder, up>>
  /\ UNCHANGED bookVars /\ UNCHANGED parseVars

\* showHeicHelp's "Got it" button and overlay click: t.remove().
dismissHeicHelp ==
  /\ heicToast
  /\ heicToast' = FALSE
  /\ UNCHANGED <<hasVideoDecoder, up, vd>>
  /\ UNCHANGED bookVars /\ UNCHANGED parseVars

(* ---------------------- ISOBMFF byte helpers -------------------------- *)

Min(a, b) == IF a < b THEN a ELSE b
Max(a, b) == IF a > b THEN a ELSE b

\* d[q] inside a bitwise expression: a read past the end of a Uint8Array is
\* undefined, which the shift and or operators take as 0.
U8(d, q) == IF q >= 0 /\ q < Len(d) THEN d[q + 1] ELSE 0

\* function r32(d,p){return((d[p]<<24)|(d[p+1]<<16)|(d[p+2]<<8)|d[p+3])>>>0;}
r32(d, q) ==
  U8(d, q) * 16777216 + U8(d, q + 1) * 65536 + U8(d, q + 2) * 256 + U8(d, q + 3)

\* function r16(d,p){return(d[p]<<8)|d[p+1];}
r16(d, q) == U8(d, q) * 256 + U8(d, q + 1)

\* A size whose high word is not 0 is 2^32 or more: it is kept as one value
\* that exceeds every buffer length, since sizes are only compared and added
\* to positions inside the buffer.
Beyond == 2 ^ 30

\* Variant: only the high word of the 64-bit size is read.
r64High(d, q) == r32(d, q)

\* function r64(d,p){return r32(d,p)*4294967296+r32(d,p+4);}
r64(d, q) == IF r32(d, q) = 0 THEN r32(d, q + 4) ELSE Beyond

\* function fcc(d,p){return String.fromCharCode(d[p],d[p+1],d[p+2],d[p+3]);}
\* A four-character code is kept as its four character codes.
fcc(d, q) == <<U8(d, q), U8(d, q + 1), U8(d, q + 2), U8(d, q + 3)>>

\* {type:t, s:p, e:p+sz, d:p+hdr}
Box(t, q, sz, hdr) == [type |-> t, s |-> q, e |-> q + sz, d |-> q + hdr]

\* Variant: a box that ends exactly at e is rejected (p+sz>=e).
BoxAtOffByOne(d, q, e) ==
  LET sz0 == r32(d, q)
      t == fcc(d, q + 4)
      ext == sz0 = 1
      sz1 == IF ext THEN r64(d, q + 8) ELSE sz0
      hdr == IF ext THEN 16 ELSE 8
      sz == IF sz1 = 0 THEN e - q ELSE sz1
  IN [ok |-> ~(sz < hdr \/ q + sz >= e), box |-> Box(t, q, sz, hdr)]

\* Variant: the size is not compared with the header length.
BoxAtNoHeaderCheck(d, q, e) ==
  LET sz0 == r32(d, q)
      t == fcc(d, q + 4)
      ext == sz0 = 1
      sz1 == IF ext THEN r64(d, q + 8) ELSE sz0
      hdr == IF ext THEN 16 ELSE 8
      sz == IF sz1 = 0 THEN e - q ELSE sz1
  IN [ok |-> ~(sz < 1 \/ q + sz > e), box |-> Box(t, q, sz, hdr)]

\* Variant: the end of the box is not compared with e.
BoxAtNoEndCheck(d, q, e) ==
  LET sz0 == r32(d, q)
      t == fcc(d, q + 4)
      ext == sz0 = 1
      sz1 == IF ext THEN r64(d, q + 8) ELSE sz0
      hdr == IF ext THEN 16 ELSE 8
      sz == IF sz1 = 0 THEN e - q ELSE sz1
  IN [ok |-> ~(sz < hdr), box |-> Box(t, q, sz, hdr)]

\* One iteration of parseBoxes' loop at position q:
\*   let sz=r32(d,p),hdr=8; const t=fcc(d,p+4);
\*   if(sz===1){sz=r64(d,p+8);hdr=16;} if(sz===0)sz=e-p;
\*   if(sz<hdr||p+sz>e)break; l.push({type:t,s:p,e:p+sz,d:p+hdr});
BoxAt(d, q, e) ==
  LET sz0 == r32(d, q)
      t == fcc(d, q + 4)
      ext == sz0 = 1
      sz1 == IF ext THEN r64(d, q + 8) ELSE sz0
      hdr == IF ext THEN 16 ELSE 8
      sz == IF sz1 = 0 THEN e - q ELSE sz1
  IN [ok |-> ~(sz < hdr \/ q + sz > e), box |-> Box(t, q, sz, hdr)]

RECURSIVE parseLoop(_, _, _, _)
\* while(p+8<=e){ ... p+=sz; } return l;
parseLoop(d, q, e, acc) ==
  IF q + 8 <= e
  THEN Once(BoxAt(d, q, e),
            LAMBDA b : IF b.ok THEN parseLoop(d, b.box.e, e, Append(acc, b.box))
                       ELSE acc)
  ELSE acc

\* function parseBoxes(d,s,e){const l=[];let p=s; ... }
parseBoxes(d, s, e) == parseLoop(d, s, e, <<>>)

\* function findBox(d,s,e,t){return parseBoxes(d,s,e).find(b=>b.type===t);}
findBox(d, s, e, t) ==
  Once(parseBoxes(d, s, e),
       LAMBDA bs :
         LET hits == {k \in 1..Len(bs) : bs[k].type = t}
         IN IF hits = {} THEN Undefined
            ELSE bs[CHOOSE k \in hits : \A m \in hits : k <= m])

(* ------------------- parseBoxes, one iteration a step ------------------ *)

\* A box that was not found, and the locals of decodeHEICwithVideoDecoder
\* before the function is entered.
NoBox == [type |-> <<>>, s |-> -1, e |-> -1, d |-> -1]

HeicIdle ==
  [pc |-> "idle", meta |-> NoBox, primaryId |-> 0, iloc |-> NoBox, i |-> 0,
   ip |-> 0, chunkOffset |-> -1, chunkLength |-> -1, ipco |-> NoBox,
   hvcC |-> <<>>, codec |-> <<>>, width |-> 0, height |-> 0, annexB |-> <<>>,
   error |-> "none", constructed |-> FALSE, configured |-> FALSE, fed |-> FALSE]

ParseIdle ==
  /\ data = <<>> /\ ps = 0 /\ pe = 0 /\ p = 0 /\ l = <<>> /\ ppc = "done"
  /\ gen = <<>>
  /\ heic = HeicIdle

\* The loop body pushes a box and advances: l.push(...); p+=sz.
parseIter ==
  /\ ppc = "loop"
  /\ p + 8 <= pe
  /\ BoxAt(data, p, pe).ok
  /\ l' = Append(l, BoxAt(data, p, pe).box)
  /\ p' = BoxAt(data, p, pe).box.e
  /\ UNCHANGED <<data, ps, pe, ppc, gen, heic>>
  /\ UNCHANGED bookVars /\ UNCHANGED uploadVars

\* if(sz<hdr||p+sz>e)break;
parseBreak ==
  /\ ppc = "loop"
  /\ p + 8 <= pe
  /\ ~BoxAt(data, p, pe).ok
  /\ ppc' = "done"
  /\ UNCHANGED <<data, ps, pe, p, l, gen, heic>>
  /\ UNCHANGED bookVars /\ UNCHANGED uploadVars

\* The loop condition p+8<=e fails: return l.
parseReturn ==
  /\ ppc = "loop"
  /\ ~(p + 8 <= pe)
  /\ ppc' = "done"
  /\ UNCHANGED <<data, ps, pe, p, l, gen, heic>>
  /\ UNCHANGED bookVars /\ UNCHANGED uploadVars

(* ----------------------- buffers to parse ------------------------------ *)

FCC_meta == <<109, 101, 116, 97>>
FCC_free == <<102, 114, 101, 101>>

Be32(n) == <<(n \div 16777216) % 256, (n \div 65536) % 256, (n \div 256) % 256, n % 256>>

Fill(n) == [k \in 1..n |-> 0]

\* A well-formed box of total length len: ordinary (32-bit size) or extended
\* (size field 1, then a 64-bit size).
EncodeBox(b) ==
  IF b.ext
  THEN Be32(1) \o b.type \o Be32(0) \o Be32(b.len) \o Fill(b.len - 16)
  ELSE Be32(b.len) \o b.type \o Fill(b.len - 8)

BoxShapes ==
  [ext : {FALSE}, type : {FCC_meta, FCC_free}, len : {8, 12}]
    \cup [ext : {TRUE}, type : {FCC_meta}, len : {16, 20}]

\* What may follow the well-formed boxes inside [s,e).
TailBytes(kind) ==
  CASE kind = "none" -> <<>>
    [] kind = "short" -> <<0, 0, 0, 8, 102, 114, 101>>
    [] kind = "undersize" -> Be32(4) \o FCC_free \o Fill(4)
    [] kind = "overrun" -> Be32(13) \o FCC_free \o Fill(4)
    [] kind = "overrunBig" -> Be32(65536) \o FCC_free \o Fill(4)
    [] kind = "zero" -> Be32(0) \o FCC_free \o Fill(4)
    [] kind = "extShort" -> Be32(1) \o FCC_free \o Fill(4)
    [] kind = "extUnder" -> Be32(1) \o FCC_free \o Be32(0) \o Be32(12) \o Fill(4)
    [] kind = "extOverrun" -> Be32(1) \o FCC_free \o Be32(0) \o Be32(21) \o Fill(4)
    [] kind = "extHuge" -> Be32(1) \o FCC_free \o Be32(1) \o Be32(16)
    [] kind = "extZero" -> Be32(1) \o FCC_free \o Be32(0) \o Be32(0) \o Fill(4)

TailKinds ==
  { "none", "short", "undersize", "overrun", "overrunBig", "zero", "extShort",
    "extUnder", "extOverrun", "extHuge", "extZero" }

RECURSIVE Concat(_)
Concat(ss) == IF ss = <<>> THEN <<>> ELSE Head(ss) \o Concat(Tail(ss))

BoxSeqs == UNION { [1..n -> BoxShapes] : n \in 0..MaxBoxes }

\* Bytes before s (the version and flags of a full box) and after e (a box
\* that lies outside the range).
LeadBytes(n) == Fill(n)
TrailBytes(n) == IF n = 0 THEN <<>> ELSE Be32(8) \o FCC_meta

BufferOf(g) ==
  LeadBytes(g.lead) \o Concat([k \in 1..Len(g.boxes) |-> EncodeBox(g.boxes[k])])
    \o TailBytes(g.tail) \o TrailBytes(g.trail)

RangeEnd(g) ==
  g.lead + Len(Concat([k \in 1..Len(g.boxes) |-> EncodeBox(g.boxes[k])]))
    + Len(TailBytes(g.tail))

\* parseBoxes(d, s, e) is entered with l = [] and p = s.
InitParse ==
  /\ gen \in [lead : {0, 4}, boxes : BoxSeqs, tail : TailKinds, trail : {0, 8}]
  /\ data = BufferOf(gen)
  /\ ps = gen.lead
  /\ pe = RangeEnd(gen)
  /\ p = ps
  /\ l = <<>>
  /\ ppc = "loop"
  /\ heic = HeicIdle

(* ------------------ decodeHEICwithVideoDecoder: the parse -------------- *)

FCC_pitm == <<112, 105, 116, 109>>
FCC_iloc == <<105, 108, 111, 99>>
FCC_iprp == <<105, 112, 114, 112>>
FCC_ipco == <<105, 112, 99, 111>>
FCC_hvcC == <<104, 118, 99, 67>>
FCC_ispe == <<105, 115, 112, 101>>
FCC_mdat == <<109, 100, 97, 116>>
FCC_ftyp == <<102, 116, 121, 112>>

\* d[q] read as a value: a read past the end is undefined, kept as NoByte.
NoByte == 0 - 1
Elem(d, q) == IF q >= 0 /\ q < Len(d) THEN d[q + 1] ELSE NoByte

\* d.slice(a, b) with 0 <= a and 0 <= b: the bytes in [a, b), clamped to d.
Slice(d, a, b) ==
  LET lo == Min(a, Len(d))
      hi == Min(b, Len(d))
  IN IF lo < hi THEN SubSeq(d, lo + 1, hi) ELSE <<>>

\* !findBox(d,s,e,t) is false: some direct child has type t.
hasBox(d, s, e, t) ==
  Once(parseBoxes(d, s, e), LAMBDA bs : \E k \in 1..Len(bs) : bs[k].type = t)

\* Variant: the error is reported and the function carries on.
ThrowSwallowed(h, msg) == [h EXCEPT !.pc = "executor"]

\* decodeHEICwithVideoDecoder throws: nothing later in the function runs.
Throw(h, msg) == [h EXCEPT !.pc = "thrown", !.error = msg]

\* Variant: the primary item id is read as 16 bits whatever pitm's version.
primaryId16(d, mc, me) ==
  IF hasBox(d, mc, me, FCC_pitm)
  THEN Once(findBox(d, mc, me, FCC_pitm), LAMBDA pitm : r16(d, pitm.d + 4))
  ELSE 1

\* const pitm=findBox(data,mc,me,'pitm'),pitmVer=pitm?data[pitm.d]:0;
\* const primaryId=pitm?(pitmVer===0?r16(data,pitm.d+4):r32(data,pitm.d+4)):1;
primaryId(d, mc, me) ==
  IF hasBox(d, mc, me, FCC_pitm)
  THEN Once(findBox(d, mc, me, FCC_pitm),
            LAMBDA pitm :
              LET pitmVer == Elem(d, pitm.d)
              IN IF pitmVer = 0 THEN r16(d, pitm.d + 4) ELSE r32(d, pitm.d + 4))
  ELSE 1

\* const ilocVer=data[iloc.d],fd=iloc.d+4;
ilocVer(d, iloc) == Elem(d, iloc.d)

\* ilocVer<2: false when ilocVer is undefined.
VerBelow2(v) == v # NoByte /\ v < 2

\* const offSz=(data[fd]>>4)&0xf,lenSz=data[fd]&0xf,baseSz=(data[fd+1]>>4)&0xf;
offSz(d, fd) == (U8(d, fd) \div 16) % 16
lenSz(d, fd) == U8(d, fd) % 16
baseSz(d, fd) == (U8(d, fd + 1) \div 16) % 16

\* const cntSz=ilocVer<2?2:4,itemCount=cntSz===2?r16(data,fd+2):r32(data,fd+2);
cntSz(v) == IF VerBelow2(v) THEN 2 ELSE 4
itemCount(d, iloc) ==
  IF cntSz(ilocVer(d, iloc)) = 2 THEN r16(d, iloc.d + 4 + 2) ELSE r32(d, iloc.d + 4 + 2)

\* let base=0; if(baseSz===4){base=r32(data,ip);ip+=4;}
\*             else if(baseSz===8){base=r64(data,ip);ip+=8;}
\* and the same statement for off/offSz and elen/lenSz: the value read and
\* the cursor after it.
ReadField(d, q, sz) ==
  IF sz = 4 THEN [v |-> r32(d, q), ip |-> q + 4]
  ELSE IF sz = 8 THEN [v |-> r64(d, q), ip |-> q + 8]
  ELSE [v |-> 0, ip |-> q]

RECURSIVE extentsFirstWins(_, _, _, _, _, _)
\* Variant: the location is assigned once, by the first extent seen.
extentsFirstWins(d, n, oSz, lSz, base, acc) ==
  IF n = 0 THEN acc
  ELSE IF n > 1 /\ acc.ip >= Len(d)
  THEN Once(extentsFirstWins(d, 1, oSz, lSz, base, acc),
            LAMBDA one : [one EXCEPT !.ip = acc.ip + n * (one.ip - acc.ip)])
  ELSE Once(LET off == ReadField(d, acc.ip, oSz)
                elen == ReadField(d, off.ip, lSz)
                first == acc.match /\ acc.chunkOffset < 0
            IN [ip |-> elen.ip,
                chunkOffset |-> IF first THEN base + off.v ELSE acc.chunkOffset,
                chunkLength |-> IF first THEN elen.v ELSE acc.chunkLength,
                match |-> acc.match],
            LAMBDA next : extentsFirstWins(d, n - 1, oSz, lSz, base, next))

RECURSIVE extents(_, _, _, _, _, _)
\* for(let e=0;e<extCnt;e++){ let off=0,elen=0; ...
\*   if(id===primaryId){chunkOffset=base+off;chunkLength=elen;} }
\* acc holds the cursor and the chunk location assigned so far. Once the
\* cursor is past the end of the data every read is 0, so the iterations
\* left all assign the same location and advance the cursor alike.
extents(d, n, oSz, lSz, base, acc) ==
  IF n = 0 THEN acc
  ELSE IF n > 1 /\ acc.ip >= Len(d)
  THEN Once(extents(d, 1, oSz, lSz, base, acc),
            LAMBDA one : [one EXCEPT !.ip = acc.ip + n * (one.ip - acc.ip)])
  ELSE Once(LET off == ReadField(d, acc.ip, oSz)
                elen == ReadField(d, off.ip, lSz)
            IN [ip |-> elen.ip,
                chunkOffset |-> IF acc.match THEN base + off.v ELSE acc.chunkOffset,
                chunkLength |-> IF acc.match THEN elen.v ELSE acc.chunkLength,
                match |-> acc.match],
            LAMBDA next : extents(d, n - 1, oSz, lSz, base, next))

\* One iteration of the item loop, from the cursor h.ip:
\*   const id=ilocVer<2?r16(data,ip):r32(data,ip); ip+=ilocVer<2?2:4;
\*   if(ilocVer===1||ilocVer===2)ip+=2; ip+=2;
\*   let base=0; ... const extCnt=r16(data,ip);ip+=2; for(...extents...)
item(d, h) ==
  LET v == ilocVer(d, h.iloc)
      fd == h.iloc.d + 4
      id == IF VerBelow2(v) THEN r16(d, h.ip) ELSE r32(d, h.ip)
      ip1 == h.ip + (IF VerBelow2(v) THEN 2 ELSE 4)
      ip2 == ip1 + (IF v = 1 \/ v = 2 THEN 2 ELSE 0) + 2
  IN Once(ReadField(d, ip2, baseSz(d, fd)), LAMBDA base :
     Once(r16(d, base.ip), LAMBDA extCnt :
     Once(extents(d, extCnt, offSz(d, fd), lenSz(d, fd), base.v,
                  [ip |-> base.ip + 2, chunkOffset |-> h.chunkOffset,
                   chunkLength |-> h.chunkLength, match |-> id = h.primaryId]),
          LAMBDA r : [h EXCEPT !.i = @ + 1, !.ip = r.ip,
                               !.chunkOffset = r.chunkOffset,
                               !.chunkLength = r.chunkLength])))

(* ------------- decodeHEICwithVideoDecoder: codec and bitstream --------- *)

Digits == <<"0", "1", "2", "3", "4", "5", "6", "7", "8", "9">>

RECURSIVE Decimal(_)
\* A non-negative integer inside a template literal: its decimal digits.
Decimal(n) ==
  IF n < 10 THEN <<Digits[n + 1]>>
  ELSE Decimal(n \div 10) \o <<Digits[(n % 10) + 1]>>

\* ${v} for a byte read as a value: undefined prints as "undefined".
Template(v) ==
  IF v = NoByte THEN <<"u", "n", "d", "e", "f", "i", "n", "e", "d">> ELSE Decimal(v)

\* Variant: the profile-space letters start at "A".
codecStringShifted(hvcC) ==
  LET b == U8(hvcC, 1)
      pspace == (b \div 64) % 4
      tier == (b \div 32) % 2
      pidc == b % 32
      lvl == Elem(hvcC, 12)
  IN <<"h", "v", "c", "1", ".">> \o << <<"A">>, <<"B">>, <<"C">>, <<"D">> >>[pspace + 1]
       \o Decimal(pidc) \o <<".", "4", ".">>
       \o (IF tier # 0 THEN <<"H">> ELSE <<"L">>) \o Template(lvl) \o <<".", "B", "0">>

\* Variant: the tier letters are exchanged (tier?'L':'H').
codecStringTierSwapped(hvcC) ==
  LET b == U8(hvcC, 1)
      pspace == (b \div 64) % 4
      tier == (b \div 32) % 2
      pidc == b % 32
      lvl == Elem(hvcC, 12)
  IN <<"h", "v", "c", "1", ".">> \o << <<>>, <<"A">>, <<"B">>, <<"C">> >>[pspace + 1]
       \o Decimal(pidc) \o <<".", "4", ".">>
       \o (IF tier # 0 THEN <<"L">> ELSE <<"H">>) \o Template(lvl) \o <<".", "B", "0">>

\* const ps=(hvcC[1]>>6)&0x3,tier=(hvcC[1]>>5)&0x1,pidc=hvcC[1]&0x1f,lvl=hvcC[12];
\* const codec=`hvc1.${['','A','B','C'][ps]}${pidc}.4.${tier?'H':'L'}${lvl}.B0`;
\* The string is kept as its sequence of characters.
codecString(hvcC) ==
  LET b == U8(hvcC, 1)
      pspace == (b \div 64) % 4
      tier == (b \div 32) % 2
      pidc == b % 32
      lvl == Elem(hvcC, 12)
  IN <<"h", "v", "c", "1", ".">> \o << <<>>, <<"A">>, <<"B">>, <<"C">> >>[pspace + 1]
       \o Decimal(pidc) \o <<".", "4", ".">>
       \o (IF tier # 0 THEN <<"H">> ELSE <<"L">>) \o Template(lvl) \o <<".", "B", "0">>

\* SC=new Uint8Array([0,0,0,1])
SC == <<0, 0, 0, 1>>

\* const naluLenSize=(hvcC[21]&0x3)+1
naluLenSize(hvcC) == (U8(hvcC, 21) % 4) + 1

RECURSIVE nalsOfArray(_, _, _, _)
\* for(let n=0;n<cnt;n++){const nl=(hvcC[hp]<<8)|hvcC[hp+1];hp+=2;
\*   parts.push(SC,hvcC.slice(hp,hp+nl));hp+=nl;}
nalsOfArray(hvcC, hp, cnt, parts) ==
  IF cnt = 0 THEN [hp |-> hp, parts |-> parts]
  ELSE Once(r16(hvcC, hp), LAMBDA nl :
       Once(<<hp + 2 + nl, parts \o <<SC, Slice(hvcC, hp + 2, hp + 2 + nl)>> >>,
            LAMBDA a : nalsOfArray(hvcC, a[1], cnt - 1, a[2])))

RECURSIVE arraysOf(_, _, _, _)
\* for(let a=0;a<na;a++){hp++;const cnt=(hvcC[hp]<<8)|hvcC[hp+1];hp+=2; ... }
arraysOf(hvcC, hp, na, parts) ==
  IF na <= 0 THEN parts
  ELSE Once(r16(hvcC, hp + 1), LAMBDA cnt :
       Once(nalsOfArray(hvcC, hp + 3, cnt, parts),
            LAMBDA r : arraysOf(hvcC, r.hp, na - 1, r.parts)))

\* let hp=22,na=hvcC[hp++]; the loop does not run when na is undefined.
parameterSetParts(hvcC) == arraysOf(hvcC, 23, Elem(hvcC, 22), <<>>)

\* nl=(nl<<8)|raw[ri+b] on 32-bit signed integers, for 0 <= nl < 2^24.
Shl8Or(nl, b) ==
  IF nl >= 8388608 THEN (nl - 16777216) * 256 + b ELSE nl * 256 + b

RECURSIVE nalLength(_, _, _, _)
\* let nl=0;for(let b=0;b<naluLenSize;b++)nl=(nl<<8)|raw[ri+b];
nalLength(raw, ri, n, nl) ==
  IF n = 0 THEN nl
  ELSE Once(Shl8Or(nl, U8(raw, ri)), LAMBDA x : nalLength(raw, ri + 1, n - 1, x))

RECURSIVE chunkPartsDiscarding(_, _, _, _)
\* Variant: a length that cannot be honoured discards what was collected.
chunkPartsDiscarding(raw, ri, n, parts) ==
  IF ri + n <= Len(raw)
  THEN Once(nalLength(raw, ri, n, 0), LAMBDA nl :
         IF nl <= 0 \/ ri + n + nl > Len(raw) THEN <<>>
         ELSE Once(<<ri + n + nl, parts \o <<SC, Slice(raw, ri + n, ri + n + nl)>> >>,
                   LAMBDA a : chunkPartsDiscarding(raw, a[1], n, a[2])))
  ELSE parts

RECURSIVE chunkPartsFrom(_, _, _, _)
\* let ri=0;while(ri+naluLenSize<=raw.length){ ...;ri+=naluLenSize;
\*   if(nl<=0||ri+nl>raw.length)break;parts.push(SC,raw.slice(ri,ri+nl));ri+=nl;}
chunkPartsFrom(raw, ri, n, parts) ==
  IF ri + n <= Len(raw)
  THEN Once(nalLength(raw, ri, n, 0), LAMBDA nl :
         IF nl <= 0 \/ ri + n + nl > Len(raw) THEN parts
         ELSE Once(<<ri + n + nl, parts \o <<SC, Slice(raw, ri + n, ri + n + nl)>> >>,
                   LAMBDA a : chunkPartsFrom(raw, a[1], n, a[2])))
  ELSE parts

\* Variant: the chunk is walked before the hvcC arrays.
partsPictureFirst(hvcC, raw) ==
  Once(<<naluLenSize(hvcC), parameterSetParts(hvcC)>>,
       LAMBDA a : chunkPartsFrom(raw, 0, a[1], <<>>) \o a[2])

\* The parts pushed by the two loops, parameter sets first.
partsOf(hvcC, raw) ==
  Once(<<naluLenSize(hvcC), parameterSetParts(hvcC)>>,
       LAMBDA a : chunkPartsFrom(raw, 0, a[1], a[2]))

RECURSIVE totalLength(_)
\* const tot=parts.reduce((n,p)=>n+p.length,0)
totalLength(parts) ==
  IF parts = <<>> THEN 0 ELSE Len(Head(parts)) + totalLength(Tail(parts))

\* annexB.set(part,off)
SetAt(buf, part, off) ==
  [k \in 1..Len(buf) |->
     IF k > off /\ k <= off + Len(part) THEN part[k - off] ELSE buf[k]]

RECURSIVE place(_, _, _)
\* let off=0; for(const part of parts){annexB.set(part,off);off+=part.length;}
place(parts, buf, off) ==
  IF parts = <<>> THEN buf
  ELSE Once(<<Tail(parts), SetAt(buf, Head(parts), off), off + Len(Head(parts))>>,
            LAMBDA a : place(a[1], a[2], a[3]))

\* annexB=new Uint8Array(tot), then filled part by part.
annexBOf(parts) ==
  Once(Fill(totalLength(parts)), LAMBDA buf : place(parts, buf, 0))

(* ------------ decodeHEICwithVideoDecoder, one stage a step ------------- *)

\* const tops=parseBoxes(data,0,N),meta=tops.find(b=>b.type==='meta');
\* if(!meta) throw new Error('No meta'); ... const primaryId=...
heicMeta ==
  /\ heic.pc = "start"
  /\ IF ~hasBox(data, 0, Len(data), FCC_meta)
     THEN heic' = Throw(heic, "No meta")
     ELSE heic' = Once(findBox(data, 0, Len(data), FCC_meta),
                       LAMBDA meta :
                         [heic EXCEPT !.pc = "iloc", !.meta = meta,
                                      !.primaryId = primaryId(data, meta.d + 4, meta.e)])
  /\ UNCHANGED <<data, ps, pe, p, l, ppc, gen>>
  /\ UNCHANGED bookVars /\ UNCHANGED uploadVars

\* const iloc=findBox(data,mc,me,'iloc'); if(!iloc) throw new Error('No iloc');
\* ... let ip=fd+2+cntSz,chunkOffset=-1,chunkLength=-1;
heicIloc ==
  /\ heic.pc = "iloc"
  /\ LET mc == heic.meta.d + 4
         me == heic.meta.e
     IN IF ~hasBox(data, mc, me, FCC_iloc)
        THEN heic' = Throw(heic, "No iloc")
        ELSE heic' = Once(findBox(data, mc, me, FCC_iloc),
                          LAMBDA iloc :
                            [heic EXCEPT !.pc = "items", !.iloc = iloc, !.i = 0,
                                         !.ip = iloc.d + 4 + 2 + cntSz(ilocVer(data, iloc)),
                                         !.chunkOffset = 0 - 1, !.chunkLength = 0 - 1])
  /\ UNCHANGED <<data, ps, pe, p, l, ppc, gen>>
  /\ UNCHANGED bookVars /\ UNCHANGED uploadVars

\* for(let i=0;i<itemCount;i++){ ... }: one iteration.
heicItem ==
  /\ heic.pc = "items"
  /\ heic.i < itemCount(data, heic.iloc)
  /\ heic' = item(data, heic)
  /\ UNCHANGED <<data, ps, pe, p, l, ppc, gen>>
  /\ UNCHANGED bookVars /\ UNCHANGED uploadVars

\* Variant: the hvcC box is used without the check that it was found.
propsUnchecked(d, h) ==
  LET mc == h.meta.d + 4
      me == h.meta.e
  IN IF h.chunkOffset < 0 THEN Throw(h, "Primary item not found in iloc")
     ELSE IF ~hasBox(d, mc, me, FCC_iprp) THEN Throw(h, "No iprp")
     ELSE Once(findBox(d, mc, me, FCC_iprp), LAMBDA iprp :
       IF ~hasBox(d, iprp.d, iprp.e, FCC_ipco) THEN Throw(h, "No ipco")
       ELSE Once(findBox(d, iprp.d, iprp.e, FCC_ipco), LAMBDA ipco :
         IF ~hasBox(d, ipco.d, ipco.e, FCC_hvcC) THEN Throw(h, "TypeError")
         ELSE Once(findBox(d, ipco.d, ipco.e, FCC_hvcC), LAMBDA hvcCBox :
           [h EXCEPT !.pc = "codec", !.ipco = ipco,
                     !.hvcC = Slice(d, hvcCBox.d, hvcCBox.e)])))

\* After the item loop:
\*   if(chunkOffset<0) throw new Error('Primary item not found in iloc');
\*   const iprp=...;if(!iprp)throw new Error('No iprp'); ... 'No ipco' ... 'No hvcC'
\*   const hvcC=data.slice(hvcCBox.d,hvcCBox.e);
props(d, h) ==
  LET mc == h.meta.d + 4
      me == h.meta.e
  IN IF h.chunkOffset < 0 THEN Throw(h, "Primary item not found in iloc")
     ELSE IF ~hasBox(d, mc, me, FCC_iprp) THEN Throw(h, "No iprp")
     ELSE Once(findBox(d, mc, me, FCC_iprp), LAMBDA iprp :
       IF ~hasBox(d, iprp.d, iprp.e, FCC_ipco) THEN Throw(h, "No ipco")
       ELSE Once(findBox(d, iprp.d, iprp.e, FCC_ipco), LAMBDA ipco :
         IF ~hasBox(d, ipco.d, ipco.e, FCC_hvcC) THEN Throw(h, "No hvcC")
         ELSE Once(findBox(d, ipco.d, ipco.e, FCC_hvcC), LAMBDA hvcCBox :
           [h EXCEPT !.pc = "codec", !.ipco = ipco,
                     !.hvcC = Slice(d, hvcCBox.d, hvcCBox.e)])))

\* The item loop has ended.
heicProps ==
  /\ heic.pc = "items"
  /\ ~(heic.i < itemCount(data, heic.iloc))
  /\ heic' = props(data, heic)
  /\ UNCHANGED <<data, ps, pe, p, l, ppc, gen>>
  /\ UNCHANGED bookVars /\ UNCHANGED uploadVars

\* const codec=...; const ispe=findBox(data,ipco.d,ipco.e,'ispe');
\* const width=ispe?r32(data,ispe.d+4):1920,height=ispe?r32(data,ispe.d+8):1080;
heicCodec ==
  /\ heic.pc = "codec"
  /\ LET has == hasBox(data, heic.ipco.d, heic.ipco.e, FCC_ispe)
         ispe == findBox(data, heic.ipco.d, heic.ipco.e, FCC_ispe)
     IN heic' = [heic EXCEPT !.pc = "annexB", !.codec = codecString(heic.hvcC),
                             !.width = IF has THEN r32(data, ispe.d + 4) ELSE 1920,
                             !.height = IF has THEN r32(data, ispe.d + 8) ELSE 1080]
  /\ UNCHANGED <<data, ps, pe, p, l, ppc, gen>>
  /\ UNCHANGED bookVars /\ UNCHANGED uploadVars

\* const raw=data.slice(chunkOffset,chunkOffset+chunkLength); ... the two loops
\* that fill parts, and the copy of the parts into annexB.
heicAnnexB ==
  /\ heic.pc = "annexB"
  /\ heic' = Once(Slice(data, heic.chunkOffset, heic.chunkOffset + heic.chunkLength),
                  LAMBDA raw :
                    Once(partsOf(heic.hvcC, raw),
                         LAMBDA parts : [heic EXCEPT !.pc = "executor",
                                                     !.annexB = annexBOf(parts)]))
  /\ UNCHANGED <<data, ps, pe, p, l, ppc, gen>>
  /\ UNCHANGED bookVars /\ UNCHANGED uploadVars

\* return new Promise((res,rej)=>{ ... const dec=new VideoDecoder({...});
\*   dec.configure({codec,...}); dec.decode(new EncodedVideoChunk({...data:annexB}));
\*   dec.flush()... })
heicExecutor ==
  /\ heic.pc = "executor"
  /\ heic' = [heic EXCEPT !.pc = "submitted", !.constructed = TRUE,
                          !.configured = TRUE, !.fed = TRUE]
  /\ UNCHANGED <<data, ps, pe, p, l, ppc, gen>>
  /\ UNCHANGED bookVars /\ UNCHANGED uploadVars

(* ----------------------- HEIC container fixtures ----------------------- *)

\* n as k big-endian bytes (k = 8: the high word is 0).
BeN(n, k) ==
  IF k = 8 THEN Fill(4) \o Be32(n)
  ELSE [j \in 1..k |-> (n \div (256 ^ (k - j))) % 256]

PlainBox(t, payload) == Be32(8 + Len(payload)) \o t \o payload

\* A box whose payload starts with a version byte and three flag bytes.
FullBox(t, ver, payload) == Be32(12 + Len(payload)) \o t \o <<ver, 0, 0, 0>> \o payload

\* The item id the file designates: pitm's id, or 1 without a pitm box.
PrimaryOf(g) == IF g.pitm = "none" THEN 1 ELSE g.primary

PitmBox(g) ==
  CASE g.pitm = "none" -> <<>>
    [] g.pitm = "v0" -> FullBox(FCC_pitm, 0, BeN(g.primary, 2))
    [] g.pitm = "v1" -> FullBox(FCC_pitm, 1, BeN(g.primary, 4))

IdBytes(g) == IF g.ilocVer < 2 THEN 2 ELSE 4

ExtentBytes(g, x) == BeN(x.off, g.offSz) \o BeN(x.len, g.lenSz)

\* item id, construction method (versions 1 and 2), data reference index,
\* base offset, extent count, extents.
ItemBytes(g, it) ==
  BeN(it.id, IdBytes(g))
    \o (IF g.ilocVer \in {1, 2} THEN <<0, 0>> ELSE <<>>) \o <<0, 0>>
    \o BeN(it.base, g.baseSz) \o BeN(Len(it.exts), 2)
    \o Concat([k \in 1..Len(it.exts) |-> ExtentBytes(g, it.exts[k])])

IlocBox(g, items) ==
  IF ~g.hasIloc THEN <<>>
  ELSE FullBox(FCC_iloc, g.ilocVer,
               <<g.offSz * 16 + g.lenSz, g.baseSz * 16>>
                 \o BeN(Len(items), IdBytes(g))
                 \o Concat([k \in 1..Len(items) |-> ItemBytes(g, items[k])]))

\* HEVCDecoderConfigurationRecord: byte 1 profile space, tier, profile; byte
\* 12 level; byte 21 NAL length size minus one (upper bits set); byte 22 the
\* number of arrays; then the arrays.
NalArrayBytes(a) ==
  <<32>> \o BeN(Len(a), 2)
    \o Concat([k \in 1..Len(a) |-> BeN(Len(a[k]), 2) \o a[k]])

HvcCBytes(g) ==
  <<1, g.pspace * 64 + g.tier * 32 + g.pidc>> \o Fill(10) \o <<g.lvl>> \o Fill(8)
    \o <<252 + (g.nls - 1), Len(g.arrays)>>
    \o Concat([k \in 1..Len(g.arrays) |-> NalArrayBytes(g.arrays[k])])

IspeWidth == 64
IspeHeight == 48

IpcoBox(g) ==
  IF ~g.hasIpco THEN <<>>
  ELSE PlainBox(FCC_ipco,
         (IF g.hasHvcC THEN PlainBox(FCC_hvcC, HvcCBytes(g)) ELSE <<>>)
           \o (IF g.hasIspe
                THEN FullBox(FCC_ispe, 0, Be32(IspeWidth) \o Be32(IspeHeight))
                ELSE <<>>))

IprpBox(g) == IF ~g.hasIprp THEN <<>> ELSE PlainBox(FCC_iprp, IpcoBox(g))

\* What may follow the coded picture's NAL units in the chunk.
ChunkTail(kind, n) ==
  CASE kind = "none" -> <<>>
    [] kind = "short" -> Fill(n - 1)
    [] kind = "zero" -> BeN(0, n) \o <<9, 9>>
    [] kind = "overrun" -> BeN(5, n) \o <<9, 9>>
    [] kind = "ones" -> [j \in 1..n |-> 255] \o <<9, 9>>

\* The coded picture: length-prefixed NAL units.
ChunkBytes(g) ==
  Concat([k \in 1..Len(g.chunk) |-> BeN(Len(g.chunk[k]), g.nls) \o g.chunk[k]])
    \o ChunkTail(g.tail, g.nls)

FtypBox == PlainBox(FCC_ftyp, <<104, 101, 105, 99, 0, 0, 0, 0>>)

\* The iloc entries of a fixture: the ones described, or one entry for the
\* primary item that locates the coded picture at position pos.
ItemsOf(g, pos) ==
  IF g.loc = "chunk"
  THEN << [id |-> PrimaryOf(g), base |-> Len(FtypBox),
           exts |-> << [off |-> pos - Len(FtypBox), len |-> Len(ChunkBytes(g))] >>] >>
  ELSE g.items

MetaBox(g, pos) ==
  IF ~g.hasMeta THEN <<>>
  ELSE FullBox(FCC_meta, 0, PitmBox(g) \o IlocBox(g, ItemsOf(g, pos)) \o IprpBox(g))

\* Where the coded picture starts: after ftyp, meta and the header of mdat.
ChunkPos(g) == Len(FtypBox) + Len(MetaBox(g, 0)) + 8

HeicFile(g) ==
  FtypBox \o MetaBox(g, ChunkPos(g)) \o PlainBox(FCC_mdat, ChunkBytes(g))

\* NAL units: n bytes that start with a tag, so that units of different
\* lengths differ in content.
Nal(n) == [j \in 1..n |-> 64 + n + j]

SeqsUpTo(S, n) == UNION { [1..k -> S] : k \in 0..n }

\* A complete single-picture file: the parameter sets of 5 and 7 bytes and
\* the 10-byte picture NAL, 4-byte NAL lengths.
Fixture ==
  [family |-> "whole", hasMeta |-> TRUE, hasIloc |-> TRUE, hasIprp |-> TRUE,
   hasIpco |-> TRUE, hasHvcC |-> TRUE, hasIspe |-> TRUE,
   pitm |-> "v0", primary |-> 1, ilocVer |-> 0, offSz |-> 4, lenSz |-> 4,
   baseSz |-> 4, loc |-> "chunk", items |-> <<>>,
   pspace |-> 0, tier |-> 0, pidc |-> 1, lvl |-> 93, nls |-> 4,
   arrays |-> << <<Nal(5), Nal(7)>> >>, chunk |-> <<Nal(10)>>, tail |-> "none"]

\* The primary item box: absent, or version 0 or 1 with its id.
PitmShapes ==
  { <<"none", 1>>, <<"v0", 1>>, <<"v0", 2>>, <<"v1", 2>>, <<"v1", 65538>> }

Entry(id) == [id |-> id, base |-> 16, exts |-> << [off |-> 8, len |-> 4] >>]

\* Files with boxes missing and with iloc entries for other items.
StructFixtures ==
  { [Fixture EXCEPT !.family = "struct", !.hasMeta = f[1], !.hasIloc = f[2],
                    !.hasIprp = f[3], !.hasIpco = f[4], !.hasHvcC = f[5],
                    !.hasIspe = f[6], !.pitm = pm[1], !.primary = pm[2],
                    !.ilocVer = v, !.loc = "items", !.items = its] :
      f \in [1..6 -> BOOLEAN], pm \in PitmShapes, v \in {0, 2},
      its \in { <<>>, <<Entry(1)>>, <<Entry(2)>>, <<Entry(1), Entry(2)>>,
                <<Entry(2), Entry(1)>> } }

ExtentShapes == { [off |-> 4, len |-> 6], [off |-> 260, len |-> 3] }

\* The items of an iloc box: ids 1..n in order, each with its own base offset.
ItemLists ==
  { [k \in 1..n |-> [id |-> k, base |-> 4096 * k, exts |-> xs[k]]] :
      n \in 1..2, xs \in [1..2 -> SeqsUpTo(ExtentShapes, MaxExtents)] }

\* offset_size, length_size, base_offset_size.
SizeTriples ==
  { <<4, 4, 4>>, <<8, 8, 8>>, <<0, 4, 0>>, <<4, 0, 4>>, <<8, 4, 0>>, <<4, 8, 8>>,
    <<2, 4, 4>>, <<4, 2, 4>>, <<4, 4, 2>> }

\* The version of the box with its sizes: every size triple in version 0, and
\* the versions 1 and 2 with 4-byte fields and with 4- and 8-byte fields.
IlocShapes ==
  { <<0, sz>> : sz \in SizeTriples }
    \cup { <<v, sz>> : v \in {1, 2}, sz \in { <<4, 4, 4>>, <<4, 8, 8>> } }

\* Files whose iloc box varies: version, field sizes, items and extents.
IlocFixtures ==
  { [Fixture EXCEPT !.family = "iloc", !.pitm = pm[1], !.primary = pm[2],
                    !.ilocVer = sh[1], !.offSz = sh[2][1], !.lenSz = sh[2][2],
                    !.baseSz = sh[2][3], !.loc = "items", !.items = its] :
      pm \in { <<"none", 1>>, <<"v0", 2>> }, sh \in IlocShapes, its \in ItemLists }

\* Files whose hvcC profile, tier and level vary.
CodecFixtures ==
  { [Fixture EXCEPT !.family = "codec", !.pspace = a, !.tier = b, !.pidc = c,
                    !.lvl = d] :
      a \in 0..3, b \in 0..1, c \in {0, 1, 2, 9, 10, 31}, d \in {0, 9, 93, 120, 255} }

\* The arrays of an hvcC box: none, one, or one followed by a short one.
NalArrays ==
  { <<>> } \cup { <<a>> : a \in SeqsUpTo({Nal(5), Nal(7)}, MaxNals) }
    \cup { <<a, b>> : a \in SeqsUpTo({Nal(5), Nal(7)}, MaxNals),
                      b \in { <<>>, <<Nal(7)>> } }

\* Files whose parameter sets and coded picture vary, and files whose coded
\* picture is followed by bytes that are not a whole NAL unit.
NalFixtures ==
  { [Fixture EXCEPT !.family = "nal", !.nls = n, !.arrays = as, !.chunk = c] :
      n \in 1..4, as \in NalArrays, c \in SeqsUpTo({Nal(10), Nal(3)}, MaxNals) }
    \cup
  { [Fixture EXCEPT !.family = "nal", !.nls = n, !.chunk = c, !.tail = t] :
      n \in 1..4, c \in SeqsUpTo({Nal(10), Nal(3)}, MaxNals),
      t \in {"short", "zero", "overrun", "ones"} }

Fixtures == StructFixtures \cup IlocFixtures \cup CodecFixtures \cup NalFixtures

(* --------------------------- specifications --------------------------- *)

\* One upload, anywhere in the book, with navigation and the save timer.
Init == InitBook /\ InitUpload({1}) /\ ParseIdle

Next ==
  \/ openBook
  \/ coverOpenEnd
  \/ \E dir \in {-1, 1} : go(dir)
  \/ pollMidpoint
  \/ finishFlip
  \/ persistSave
  \/ dismissHeicHelp
  \/ \E i \in {1} :
       \/ pageUpload(i)
       \/ coverUpload(i)
       \/ bitmapResolve(i)
       \/ bitmapReject(i)
       \/ imgLoad(i)
       \/ imgError(i)
       \/ parseThrow(i)
       \/ executorThrow(i)
       \/ submit(i)
       \/ decoderOutput(i)
       \/ decoderError(i)
       \/ flushReject(i)
       \/ flushResolve(i)

Spec == Init /\ [][Next]_vars

\* Two uploads in flight at once, both chosen on the cover's file input (the
\* input stays in place while the first decode is awaited); no navigation.
InitDecode == InitBook /\ InitUpload({1, 2}) /\ ParseIdle

NextDecode ==
  \/ openBook
  \/ coverOpenEnd
  \/ \E i \in {1, 2} :
       \/ coverUpload(i)
       \/ bitmapResolve(i)
       \/ bitmapReject(i)
       \/ imgLoad(i)
       \/ imgError(i)
       \/ parseThrow(i)
       \/ executorThrow(i)
       \/ submit(i)
       \/ decoderOutput(i)
       \/ decoderError(i)
       \/ flushReject(i)
       \/ flushResolve(i)

SpecDecode == InitDecode /\ [][NextDecode]_vars

\* parseBoxes over generated buffers; the loop is synchronous code, so it
\* keeps stepping until it returns.
InitParseSpec ==
  /\ InitBook
  /\ heicToast = FALSE /\ hasVideoDecoder = TRUE
  /\ up = [i \in {1} |-> IdleUpload] /\ vd = [i \in {1} |-> IdleDecoder]
  /\ InitParse

NextParse == parseIter \/ parseBreak \/ parseReturn

SpecParse == InitParseSpec /\ [][NextParse]_vars /\ WF_vars(NextParse)

\* parseBoxes over arbitrary contents: a buffer is a sequence of 32-bit words,
\* each one a size field that matters to the parser (0, 1, the header lengths,
\* a size past every buffer); s and e fall anywhere, word-aligned or not.
Words == { Be32(0), Be32(1), Be32(8), Be32(16), <<1, 0, 0, 0>> }

AnyBuffers ==
  { Concat(ws) : ws \in UNION { [1..n -> Words] : n \in 0..MaxWords } }

InitParseAny ==
  /\ InitBook
  /\ heicToast = FALSE /\ hasVideoDecoder = TRUE
  /\ up = [i \in {1} |-> IdleUpload] /\ vd = [i \in {1} |-> IdleDecoder]
  /\ gen = <<>>
  /\ heic = HeicIdle
  /\ data \in AnyBuffers
  /\ ps \in 0..Min(4, Len(data))
  /\ pe \in Max(ps, Len(data) - 4)..Len(data)
  /\ p = ps
  /\ l = <<>>
  /\ ppc = "loop"

SpecParseAny == InitParseAny /\ [][NextParse]_vars /\ WF_vars(NextParse)

\* decodeHEICwithVideoDecoder(file) after file.arrayBuffer() has resolved,
\* over the fixtures; the function is synchronous up to its return.
InitHeic ==
  /\ InitBook
  /\ heicToast = FALSE /\ hasVideoDecoder = TRUE
  /\ up = [i \in {1} |-> IdleUpload] /\ vd = [i \in {1} |-> IdleDecoder]
  /\ gen \in Fixtures
  /\ data = HeicFile(gen)
  /\ ps = 0 /\ pe = 0 /\ p = 0 /\ l = <<>> /\ ppc = "done"
  /\ heic = [HeicIdle EXCEPT !.pc = "start"]

NextHeic ==
  \/ heicMeta
  \/ heicIloc
  \/ heicItem
  \/ heicProps
  \/ heicCodec
  \/ heicAnnexB
  \/ heicExecutor

SpecHeic == InitHeic /\ [][NextHeic]_vars /\ WF_vars(NextHeic)

\* The layout buttons. The book lies open at its first spread, as it does after
\* openBook, its animationend, one go(1) with its flip finished and the save
\* that follows; two photos are uploaded into slots of that spread while its
\* two pages are switched between the layouts.
InitLayout ==
  /\ InitUpload({1, 2}) /\ ParseIdle
  /\ hasVideoDecoder
  /\ spreads = InitialSpreads
  /\ current = 1
  /\ animating = FALSE
  /\ bookMode = "open"
  /\ flip = [NoFlip EXCEPT !.switched = TRUE, !.next = 1]
  /\ saveTimer = FALSE
  /\ isReadMode = FALSE
  /\ mainRecord = "own"
  /\ trayDragIdx = NoDrag

\* A JPEG chosen on the file input of a slot of the spread shown.
photoUpload(i) ==
  \E side \in Sides, pi \in 0..1 :
    uploadStart(i, "page", current, side, pi, [name |-> Name_jpg, type |-> "image/jpeg"])

NextLayout ==
  \/ persistSave
  \/ \E side \in Sides, layout \in Layouts : setLayout(current, side, layout)
  \/ \E i \in {1, 2} :
       \/ photoUpload(i)
       \/ bitmapResolve(i)

SpecLayout == InitLayout /\ [][NextLayout]_vars

\* A book of n spreads, the cover included.
Book(n) == [k \in 1..n |-> IF k = 1 THEN InitialSpreads[1] ELSE NewSpread(k - 1)]

\* Read mode: a shared book was fetched for a ?share= link (isReadMode = true,
\* spreads = resolved.spreads, current = 0, render()); the viewer opens it
\* and turns its pages with the buttons, the arrow keys and the tray.
InitRead ==
  /\ InitUpload({1}) /\ ParseIdle
  /\ hasVideoDecoder
  /\ spreads \in { Book(n) : n \in 2..MaxSpreads }
  /\ current = 0
  /\ animating = FALSE
  /\ bookMode = "closed"
  /\ flip = NoFlip
  /\ saveTimer = FALSE
  /\ isReadMode = TRUE
  /\ mainRecord = "own"
  /\ trayDragIdx = NoDrag

NextRead ==
  \/ openBook
  \/ coverOpenEnd
  \/ \E dir \in {-1, 1} : go(dir)
  \/ \E target \in 0..(MaxSpreads - 1) : goTo(target)
  \/ pollMidpoint
  \/ finishFlip
  \/ persistSave

SpecRead == InitRead /\ [][NextRead]_vars

\* The files importBook is given: an exported book of a cover and one spread,
\* and the same file with an index past its last spread.
ImportFiles == { [spreads |-> Book(2), current |-> c] : c \in 0..2 }

\* The editor with the book open: navigation, adding and deleting spreads,
\* reordering them in the tray, reset and import.
InitEdit ==
  /\ InitUpload({1}) /\ ParseIdle
  /\ hasVideoDecoder
  /\ spreads = InitialSpreads
  /\ current = 0
  /\ animating = FALSE
  /\ bookMode = "open"
  /\ flip = NoFlip
  /\ saveTimer = FALSE
  /\ isReadMode = FALSE
  /\ mainRecord = "own"
  /\ trayDragIdx = NoDrag

NextEdit ==
  \/ \E dir \in {-1, 1} : go(dir)
  \/ \E target \in 0..(MaxSpreads - 1) : goTo(target)
  \/ pollMidpoint
  \/ finishFlip
  \/ persistSave
  \/ addPages
  \/ deletePage
  \/ \E i \in 0..(MaxSpreads - 1) : trayDragStart(i) \/ trayDrop(i)
  \/ trayDragEnd
  \/ resetBook
  \/ \E d \in ImportFiles : importBook(d)

SpecEdit == InitEdit /\ [][NextEdit]_vars

\* Page flips while a photo is being loaded: the book lies open at its first
\* spread, a JPEG is chosen for one of its slots, and the pages are turned
\* while createImageBitmap is pending. The animation frames and the
\* animationend event of a flipper that is in the document do arrive.
InitFlip ==
  /\ InitUpload({1}) /\ ParseIdle
  /\ hasVideoDecoder
  /\ spreads = InitialSpreads
  /\ current = 1
  /\ animating = FALSE
  /\ bookMode = "open"
  /\ flip = [NoFlip EXCEPT !.switched = TRUE, !.next = 1]
  /\ saveTimer = FALSE
  /\ isReadMode = FALSE
  /\ mainRecord = "own"
  /\ trayDragIdx = NoDrag

NextFlip ==
  \/ \E dir \in {-1, 1} : go(dir)
  \/ pollMidpoint
  \/ finishFlip
  \/ persistSave
  \/ photoUpload(1)
  \/ bitmapResolve(1)

SpecFlip ==
  InitFlip /\ [][NextFlip]_vars /\ WF_vars(pollMidpoint) /\ WF_vars(finishFlip)

\* Photos and their crops on the right page of the first spread: two photos
\* are uploaded into its slots, framed, dragged from slot to slot and removed
\* while the page is switched between the layouts of one and of two photos.
slotUpload(i) ==
  \E pi \in 0..1 :
    uploadStart(i, "page", current, "right", pi, [name |-> Name_jpg, type |-> "image/jpeg"])

NextCrop ==
  \/ persistSave
  \/ \E layout \in {"single", "two"} : setLayout(current, "right", layout)
  \/ \E i \in {1, 2} :
       \/ slotUpload(i)
       \/ bitmapResolve(i)
  \/ \E pi \in 0..1 :
       \/ applyCrop("right", pi)
       \/ removePhoto("right", pi)
  \/ \E sp, dp \in 0..1 : dropPhoto(Slot("right", sp), Slot("right", dp))

SpecCrop == InitLayout /\ [][NextCrop]_vars

(* ------------------- claims: the fallback orchestrator ----------------- *)

TierOrder == <<"bitmap", "img", "vd">>

IsPrefix(a, b) == Len(a) <= Len(b) /\ \A k \in 1..Len(a) : a[k] = b[k]

\* The files the claims call HEIC: the name ends in .heic or .heif (in either
\* case), or the media type is image/heic or image/heif.
ClaimedHEIC(f) ==
  \/ f.name \in {Name_HEIC, Name_heif}
  \/ f.type \in {"image/heic", "image/heif"}

\* The tiers that apply to a file in this environment.
Applicable(f) ==
  IF ClaimedHEIC(f) /\ hasVideoDecoder THEN TierOrder ELSE <<"bitmap", "img">>

\* C1: the tiers are attempted in the order createImageBitmap, <img> tag,
\* VideoDecoder; a tier is attempted only once every earlier tier has failed;
\* after a success no further tier is attempted; the VideoDecoder tier is
\* attempted only for HEIC files and only where VideoDecoder is defined, so a
\* non-HEIC file sees at most the first two tiers.
C1_TierOrder ==
  \A i \in Uploads :
    LET u == up[i] IN
      /\ IsPrefix(u.tiers, TierOrder)
      /\ IsPrefix(u.failed, u.tiers)
      /\ Len(u.tiers) <= Len(u.failed) + 1
      /\ (u.result = "ok" => Len(u.tiers) = Len(u.failed) + 1)
      /\ (Len(u.tiers) = 3 => ClaimedHEIC(u.file) /\ hasVideoDecoder)
      /\ (~ClaimedHEIC(u.file) => Len(u.tiers) <= 2)

C1_Witness ==
  \E i \in Uploads :
    /\ up[i].tiers = TierOrder
    /\ up[i].failed = <<"bitmap", "img">>
    /\ up[i].result = "ok"

\* C2: an upload of a HEIC file ends with a decoded result or with exactly
\* HEIC_UNSUPPORTED, the latter only when every applicable tier was attempted
\* and failed; no tier-internal error reaches the caller.
C2_HeicTerminal ==
  \A i \in Uploads :
    LET u == up[i] IN
      /\ (ClaimedHEIC(u.file) /\ u.pc = "end"
            => u.result \in {"ok", "HEIC_UNSUPPORTED"})
      /\ (u.result = "HEIC_UNSUPPORTED"
            => ClaimedHEIC(u.file) /\ u.failed = Applicable(u.file)
               /\ u.tiers = Applicable(u.file))
      /\ u.result \notin ParseErrors \cup DecoderErrors \cup {"TypeError"}

C2_Witness ==
  \E i \in Uploads :
    /\ up[i].pc = "end"
    /\ up[i].result = "HEIC_UNSUPPORTED"
    /\ up[i].failed = TierOrder
    /\ vd[i].settled = "rejected"
    /\ vd[i].first = "error"

(* --------------------- claims: the decode adapter ---------------------- *)

\* C3: per decode attempt the resolve/release path runs at most once whatever
\* the decoder delivers: res/rej is called at most once, only the first output
\* frame can be drawn, and every output frame delivered has been closed.
C3_CompletionGuard ==
  \A i \in Uploads :
    /\ vd[i].settleCalls <= 1
    /\ vd[i].drawnFrames \subseteq {1}
    /\ vd[i].framesClosed = vd[i].frames
    /\ (vd[i].settled = "resolved" => vd[i].drawnFrames = {1})

C3_Witness ==
  \E i \in Uploads :
    /\ vd[i].frames >= 2
    /\ vd[i].drawnFrames = {1}
    /\ vd[i].flush = "rejected"
    /\ vd[i].settled = "resolved"

\* C4: a submitted decode attempt is settled exactly once as soon as the
\* decoder has delivered an output frame, an error or a flush rejection, and
\* is pending as long as it has delivered none of them (a flush that resolves
\* settles nothing).
C4_SettlesExactlyOnce ==
  \A i \in Uploads :
    vd[i].submitted =>
      /\ vd[i].settleCalls = (IF vd[i].first = "none" THEN 0 ELSE 1)
      /\ (vd[i].settled = "pending") = (vd[i].first = "none")
      /\ (vd[i].settled = "pending") = (up[i].pc = "dec")

C4_Witness ==
  \E i, j \in Uploads :
    /\ vd[i].flush = "resolved"
    /\ vd[i].settled = "pending"
    /\ up[i].pc = "dec"
    /\ vd[j].settled = "rejected"
    /\ vd[j].first = "flushReject"

\* The outcome of a decode attempt run alone: decided by the first output,
\* error or flush rejection its own decoder delivers.
AloneOutcome(v) ==
  CASE v.first = "none" -> "pending"
    [] v.first = "output" -> "resolved"
    [] OTHER -> "rejected"

\* C5: two concurrent decode invocations do not interact: a step of one
\* leaves the other's state as it was, and in every interleaving each one's
\* outcome is the outcome its own decoder's deliveries produce alone.
C5_Independent ==
  /\ [](\A i \in Uploads : vd[i].submitted => vd[i].settled = AloneOutcome(vd[i]))
  /\ [][\A i, j \in Uploads :
          (i # j /\ (vd'[i] # vd[i] \/ up'[i] # up[i]))
            => (vd'[j] = vd[j] /\ up'[j] = up[j])]_vars

C5_Witness ==
  /\ vd[1].settled = "resolved" /\ vd[1].events >= 2
  /\ vd[2].settled = "rejected" /\ vd[2].events >= 2

(* --------------------- claims: the upload handlers --------------------- *)

\* C6: when readImageToDataURL fails, the upload handler (page slot or cover)
\* changes neither spreads nor current, and ends without an exception escaping.
C6_FailureLeavesBook ==
  [][\A i \in Uploads :
       (up[i].result = "pending" /\ up'[i].result \notin {"pending", "ok"})
         => /\ spreads' = spreads
            /\ current' = current
            /\ up'[i].pc = "end"
            /\ ~up'[i].escaped]_vars

C6_Witness ==
  \E i \in Uploads :
    /\ up[i].pc = "end"
    /\ up[i].entry = "cover"
    /\ up[i].result = "HEIC_UNSUPPORTED"
    /\ spreads[1].photo = Null

\* C7: on every upload entry point, an upload that fails with HEIC_UNSUPPORTED
\* shows the HEIC remediation message (showHeicHelp).
C7_HeicHelpShown ==
  \A i \in Uploads :
    (up[i].pc = "end" /\ up[i].result = "HEIC_UNSUPPORTED")
      => up[i].msg = "heicHelp"

(* ------------------------ claims: parseBoxes --------------------------- *)

RECURSIVE SumLen(_, _)
\* The total length of the first k described boxes.
SumLen(bs, k) == IF k = 0 THEN 0 ELSE SumLen(bs, k - 1) + bs[k].len

HeaderLen(b) == IF b.ext THEN 16 ELSE 8

\* The k-th box a buffer was built from, as the parser should report it.
DescribedBox(g, k) ==
  [type |-> g.boxes[k].type,
   s |-> g.lead + SumLen(g.boxes, k - 1),
   e |-> g.lead + SumLen(g.boxes, k),
   d |-> g.lead + SumLen(g.boxes, k - 1) + HeaderLen(g.boxes[k])]

\* A tail whose size resolves to 0 is a box that extends to e; every other
\* tail is malformed, or too short to hold a header, and yields no box.
DescribedTail(g) ==
  LET at == g.lead + SumLen(g.boxes, Len(g.boxes)) IN
    CASE g.tail = "zero" ->
           << [type |-> FCC_free, s |-> at, e |-> RangeEnd(g), d |-> at + 8] >>
      [] g.tail = "extZero" ->
           << [type |-> FCC_free, s |-> at, e |-> RangeEnd(g), d |-> at + 16] >>
      [] OTHER -> <<>>

Described(g) == [k \in 1..Len(g.boxes) |-> DescribedBox(g, k)] \o DescribedTail(g)

Extent(bs) == [k \in 1..Len(bs) |-> [type |-> bs[k].type, s |-> bs[k].s, e |-> bs[k].e]]

\* C8: on a range that is exactly a concatenation of well-formed size-prefixed
\* boxes, parseBoxes returns those boxes in order; the first starts at s, the
\* last ends at e, and each box ends where the next starts.
C8_Tiling ==
  (ppc = "done" /\ gen.tail = "none") =>
    /\ Extent(l) = Extent(Described(gen))
    /\ (l # <<>> => l[1].s = ps /\ l[Len(l)].e = pe)
    /\ \A k \in 1..(Len(l) - 1) : l[k].e = l[k + 1].s

C8_Witness ==
  /\ ppc = "done"
  /\ gen.tail = "none"
  /\ gen.lead = 4
  /\ Len(gen.boxes) = MaxBoxes
  /\ gen.boxes[1].ext
  /\ Len(l) = MaxBoxes

\* C9: parseBoxes terminates, and when it stops at a malformed box (size below
\* the header length, or end past e, the size taken after the size-1 and
\* size-0 rules) or with fewer than 8 bytes left, it returns exactly the
\* well-formed boxes before that position.
C9_TruncationTolerant ==
  /\ [](ppc = "done" =>
          /\ l = Described(gen)
          /\ p = (IF l = <<>> THEN ps ELSE l[Len(l)].e))
  /\ [][(l' # l => p' > p) /\ p' >= p /\ p' <= pe]_vars
  /\ <>(ppc = "done")

C9_Witness ==
  /\ ppc = "done"
  /\ gen.tail = "overrun"
  /\ Len(gen.boxes) = MaxBoxes
  /\ Len(l) = MaxBoxes
  /\ p + 8 <= pe

\* The same buffer description with every extended-size box written as an
\* ordinary box of the same total length.
OrdinaryForm(g) ==
  [g EXCEPT !.boxes = [k \in 1..Len(g.boxes) |-> [g.boxes[k] EXCEPT !.ext = FALSE]]]

\* C10: a box written with size field 1 and a 64-bit size is parsed to the
\* same type, start and end as the ordinary box of the same total length at
\* the same position, and so is every box after it.
C10_ExtendedSameAsOrdinary ==
  (ppc = "done" /\ \E k \in 1..Len(gen.boxes) : gen.boxes[k].ext) =>
    Extent(l) = Extent(parseBoxes(BufferOf(OrdinaryForm(gen)), ps, pe))

C10_Witness ==
  /\ ppc = "done"
  /\ Len(gen.boxes) = MaxBoxes
  /\ gen.boxes[1].ext
  /\ ~gen.boxes[MaxBoxes].ext
  /\ gen.trail = 8
  /\ Len(l) = MaxBoxes

\* C11: every box parseBoxes(d,s,e) returns, for any contents of d and any
\* 0 <= s <= e <= d.length, has s <= start <= payloadStart <= end <= e, and
\* so lies inside the buffer; size-0 and extended-size boxes included.
C11_BoxInvariant ==
  \A k \in 1..Len(l) :
    /\ ps <= l[k].s
    /\ l[k].s <= l[k].d
    /\ l[k].d <= l[k].e
    /\ l[k].e <= pe
    /\ l[k].e <= Len(data)

C11_Witness ==
  /\ ppc = "done"
  /\ Len(l) = 1
  /\ l[1].d = l[1].s + 16
  /\ r32(data, l[1].s + 12) = 0
  /\ l[1].e = pe
  /\ pe = Len(data)

(* ------------- claims: decodeHEICwithVideoDecoder, the parse ----------- *)

\* The boxes a fixture holds: a box is present when it and the boxes around
\* it were written.
MetaPresent(g) == g.hasMeta
IlocPresent(g) == g.hasMeta /\ g.hasIloc
IprpPresent(g) == g.hasMeta /\ g.hasIprp
IpcoPresent(g) == IprpPresent(g) /\ g.hasIpco

\* The iloc entries a fixture was written with.
Entries(g) == ItemsOf(g, ChunkPos(g))

EntryMatches(g) ==
  \E k \in 1..Len(Entries(g)) : Entries(g)[k].id = PrimaryOf(g)

\* Some entry for the primary item has an extent.
PrimaryLocated(g) ==
  \E k \in 1..Len(Entries(g)) :
    Entries(g)[k].id = PrimaryOf(g) /\ Entries(g)[k].exts # <<>>

\* The field sizes the container format allows in iloc.
ValidSizes(g) == {g.offSz, g.lenSz, g.baseSz} \subseteq {0, 4, 8}

StructureErrors == { "No meta", "No iloc", "No iprp", "No ipco" }
PrimaryItemNotFound == "Primary item not found in iloc"
MissingCodecConfiguration == "No hvcC"

\* The function has returned its promise or thrown.
Terminal == heic.pc \in {"thrown", "submitted"}

NoDecoder == ~heic.constructed /\ ~heic.configured /\ ~heic.fed

MissingRequired(g) ==
  ~MetaPresent(g) \/ ~IlocPresent(g) \/ ~IprpPresent(g) \/ ~IpcoPresent(g)

\* C12 as stated: if any of meta, iloc, iprp, ipco is absent, the decode fails
\* with a container-structure error, before any decoder instance is
\* constructed, configured or fed.
C12_MissingBoxIsStructureError ==
  MissingRequired(gen) =>
    /\ NoDecoder
    /\ (Terminal => heic.pc = "thrown" /\ heic.error \in StructureErrors)

\* C12, amended: if any of meta, iloc, iprp, ipco is absent, the decode fails
\* before any decoder instance is constructed, configured or fed: with the
\* container-structure error of the first absent box in the order meta, iloc,
\* iprp, ipco, except that with meta and iloc present and no location found
\* for the primary item it fails with PrimaryItemNotFound, which is checked
\* before iprp and ipco are looked up.
C12_MissingBoxFailsEarly ==
  MissingRequired(gen) =>
    /\ NoDecoder
    /\ (Terminal =>
          /\ heic.pc = "thrown"
          /\ heic.error =
               (IF ~MetaPresent(gen) THEN "No meta"
                ELSE IF ~IlocPresent(gen) THEN "No iloc"
                ELSE IF ~PrimaryLocated(gen) THEN PrimaryItemNotFound
                ELSE IF ~IprpPresent(gen) THEN "No iprp"
                ELSE "No ipco"))

C12_Witness ==
  /\ heic.pc = "thrown"
  /\ heic.error = "No ipco"
  /\ gen.hasIprp /\ ~gen.hasIpco
  /\ gen.pitm = "v1"
  /\ heic.i = 2

\* C13 as stated: for every input whose property container holds no hvcC
\* box, the decode fails with MissingCodecConfiguration, with no other error
\* kind, and never constructs or configures a decoder.
C13_NoHvcCIsMissingCodecConfiguration ==
  (IpcoPresent(gen) /\ ~gen.hasHvcC) =>
    /\ NoDecoder
    /\ (Terminal => heic.pc = "thrown" /\ heic.error = MissingCodecConfiguration)

\* C13, amended: for every input whose property container holds no hvcC
\* box, the decode fails and never constructs or configures a decoder; it
\* fails with MissingCodecConfiguration when iloc is present and locates the
\* primary item, and otherwise with the error of that earlier check
\* (container structure for an absent iloc, PrimaryItemNotFound).
C13_NoHvcCFails ==
  (IpcoPresent(gen) /\ ~gen.hasHvcC) =>
    /\ NoDecoder
    /\ (Terminal =>
          /\ heic.pc = "thrown"
          /\ heic.error =
               (IF ~IlocPresent(gen) THEN "No iloc"
                ELSE IF ~PrimaryLocated(gen) THEN PrimaryItemNotFound
                ELSE MissingCodecConfiguration))

C13_Witness ==
  /\ heic.pc = "thrown"
  /\ heic.error = MissingCodecConfiguration
  /\ gen.hasIpco /\ ~gen.hasHvcC /\ gen.hasIspe
  /\ gen.pitm = "none"

\* C14: if no iloc entry has the id of the primary item (pitm's 16-bit id for
\* version 0, its 32-bit id for version 1 and up, 1 without a pitm box), the
\* decode fails with PrimaryItemNotFound and reaches neither the codec
\* descriptor nor the decoder. The iloc field sizes are 0, 4 or 8.
C14_PrimaryItemNotFound ==
  (IlocPresent(gen) /\ ValidSizes(gen) /\ ~EntryMatches(gen)) =>
    /\ NoDecoder
    /\ heic.pc \notin {"codec", "annexB", "executor", "submitted"}
    /\ heic.hvcC = <<>> /\ heic.codec = <<>>
    /\ (Terminal => heic.pc = "thrown" /\ heic.error = PrimaryItemNotFound)

C14_Witness ==
  /\ heic.pc = "thrown"
  /\ heic.error = PrimaryItemNotFound
  /\ gen.pitm = "v1" /\ gen.primary = 65538
  /\ gen.items = <<Entry(2), Entry(1)>>
  /\ gen.hasIprp /\ gen.hasIpco /\ gen.hasHvcC
  /\ heic.i = 2

\* The value of a field of sz bytes: absent, and so 0, when sz is 0.
FieldValue(v, sz) == IF sz = 0 THEN 0 ELSE v

\* The entry for the primary item, when there is one.
MatchingEntry(g) ==
  Entries(g)[CHOOSE k \in 1..Len(Entries(g)) : Entries(g)[k].id = PrimaryOf(g)]

LastExtent(it) == it.exts[Len(it.exts)]

\* The item loop has ended and the primary item was located.
Located == heic.pc \in {"codec", "annexB", "executor", "submitted"}

\* C15: the location resolved from iloc is offset = base_offset +
\* extent_offset and length = extent_length of the final extent of the entry
\* for the primary item: that extent when it is the only one, and with
\* several extents the last one, the earlier ones ignored. The iloc field
\* sizes are 0, 4 or 8.
C15_LastExtentLocation ==
  (Located /\ ValidSizes(gen)) =>
    /\ PrimaryLocated(gen)
    /\ LET it == MatchingEntry(gen) IN
         /\ heic.chunkOffset = FieldValue(it.base, gen.baseSz)
                                 + FieldValue(LastExtent(it).off, gen.offSz)
         /\ heic.chunkLength = FieldValue(LastExtent(it).len, gen.lenSz)

C15_Witness ==
  /\ heic.pc = "submitted"
  /\ gen.family = "iloc"
  /\ gen.pitm = "v0" /\ gen.primary = 2
  /\ gen.ilocVer = 1
  /\ <<gen.offSz, gen.lenSz, gen.baseSz>> = <<4, 8, 8>>
  /\ Len(gen.items) = 2
  /\ gen.items[2].exts = << [off |-> 4, len |-> 6], [off |-> 260, len |-> 3] >>
  /\ heic.chunkOffset = 8192 + 260
  /\ heic.chunkLength = 3

(* ------------------ claims: the codec identifier string ---------------- *)

\* The codec string has been built.
CodecBuilt == heic.pc \in {"annexB", "executor", "submitted"}

\* The decimal numerals of the profile and level numbers the fixtures use.
Numeral(n) ==
  CASE n = 0 -> <<"0">> [] n = 1 -> <<"1">> [] n = 2 -> <<"2">>
    [] n = 9 -> <<"9">> [] n = 10 -> <<"1", "0">> [] n = 31 -> <<"3", "1">>
    [] n = 93 -> <<"9", "3">> [] n = 120 -> <<"1", "2", "0">>
    [] n = 255 -> <<"2", "5", "5">>

ProfileSpaceLetter(n) ==
  CASE n = 0 -> <<>> [] n = 1 -> <<"A">> [] n = 2 -> <<"B">> [] n = 3 -> <<"C">>

TierLetter(n) == CASE n = 0 -> <<"L">> [] n = 1 -> <<"H">>

\* C16: for every hvcC configuration the codec string is "hvc1." +
\* profileSpaceLetter + profileIdc + ".4." + tierLetter + levelIdc + ".B0",
\* the letter being "", "A", "B", "C" for profile_space 0, 1, 2, 3 and "L",
\* "H" for tier_flag 0, 1, the numbers in decimal.
C16_CodecString ==
  CodecBuilt =>
    heic.codec = <<"h", "v", "c", "1", ".">> \o ProfileSpaceLetter(gen.pspace)
                   \o Numeral(gen.pidc) \o <<".", "4", ".">> \o TierLetter(gen.tier)
                   \o Numeral(gen.lvl) \o <<".", "B", "0">>

C16_Witness ==
  /\ heic.pc = "submitted"
  /\ gen.pspace = 3 /\ gen.tier = 1 /\ gen.pidc = 31 /\ gen.lvl = 255
  /\ Len(heic.codec) = 18

IsConfig(g, a, b, c, d) == g.pspace = a /\ g.tier = b /\ g.pidc = c /\ g.lvl = d

\* C17 as stated: profile_space=0, tier_flag=0, profile_idc=1, level_idc=93
\* gives "hvc1.A1.4.L93.B0", and profile_space=2, tier_flag=1, profile_idc=2,
\* level_idc=120 gives "hvc1.C2.4.H120.B0".
C17_ExamplesAsStated ==
  CodecBuilt =>
    /\ (IsConfig(gen, 0, 0, 1, 93) =>
          heic.codec = <<"h", "v", "c", "1", ".", "A", "1", ".", "4", ".", "L",
                         "9", "3", ".", "B", "0">>)
    /\ (IsConfig(gen, 2, 1, 2, 120) =>
          heic.codec = <<"h", "v", "c", "1", ".", "C", "2", ".", "4", ".", "H",
                         "1", "2", "0", ".", "B", "0">>)

\* C17, amended: profile_space=0, tier_flag=0, profile_idc=1, level_idc=93
\* gives "hvc1.1.4.L93.B0" (no letter for profile space 0), and
\* profile_space=2, tier_flag=1, profile_idc=2, level_idc=120 gives
\* "hvc1.B2.4.H120.B0".
C17_Examples ==
  CodecBuilt =>
    /\ (IsConfig(gen, 0, 0, 1, 93) =>
          heic.codec = <<"h", "v", "c", "1", ".", "1", ".", "4", ".", "L",
                         "9", "3", ".", "B", "0">>)
    /\ (IsConfig(gen, 2, 1, 2, 120) =>
          heic.codec = <<"h", "v", "c", "1", ".", "B", "2", ".", "4", ".", "H",
                         "1", "2", "0", ".", "B", "0">>)

C17_Witness ==
  /\ heic.pc = "submitted"
  /\ gen.family = "codec"
  /\ IsConfig(gen, 2, 1, 2, 120)
  /\ heic.codec[6] = "B"

(* ------------------- claims: the Annex-B reformatter ------------------- *)

StartCode == <<0, 0, 0, 1>>

\* The parameter-set NAL units of a fixture, in hvcC array order.
ParameterSets(g) == Concat(g.arrays)

\* Each NAL unit of a sequence behind a start code.
Delimited(nals) == Concat([k \in 1..Len(nals) |-> StartCode \o nals[k]])

RECURSIVE SegmentLengths(_)
SegmentLengths(nals) ==
  IF nals = <<>> THEN 0 ELSE 4 + Len(Head(nals)) + SegmentLengths(Tail(nals))

\* The Annex-B buffer has been built from the coded picture the fixture holds.
Reformatted == heic.pc \in {"executor", "submitted"} /\ gen.loc = "chunk"

\* C18: the Annex-B buffer is the concatenation, in order, of start code +
\* NAL bytes for every parameter-set NAL in hvcC array order, then of start
\* code + NAL bytes for every length-prefixed NAL of the chunk in chunk order;
\* the NAL bytes are copied verbatim, and the length is the sum of the segment
\* lengths, nothing added.
C18_AnnexB ==
  Reformatted =>
    /\ heic.annexB = Delimited(ParameterSets(gen)) \o Delimited(gen.chunk)
    /\ Len(heic.annexB) = SegmentLengths(ParameterSets(gen)) + SegmentLengths(gen.chunk)

C18_Witness ==
  /\ heic.pc = "submitted"
  /\ gen.family = "nal"
  /\ gen.nls = 4 /\ gen.tail = "none"
  /\ gen.arrays = << <<Nal(5), Nal(7)>> >>
  /\ gen.chunk = <<Nal(10)>>
  /\ Len(heic.annexB) = 4 + 5 + 4 + 7 + 4 + 10
  /\ SubSeq(heic.annexB, 1, 9) = StartCode \o Nal(5)

\* The coded picture of the fixture is followed by bytes that are not a whole
\* length-prefixed NAL unit.
Truncated(g) == g.loc = "chunk" /\ g.tail # "none"

\* The walk has ended without an error and has kept the units before its end.
WalkKept ==
  /\ heic.error = "none"
  /\ gen.loc = "chunk" =>
        heic.annexB = Delimited(ParameterSets(gen)) \o Delimited(gen.chunk)

\* C21: the chunk walk always terminates and tolerates truncation: it stops
\* without an error when fewer than nalLengthSize bytes remain, when a length
\* that is zero or negative is read, or when the length runs past the end of
\* the chunk, and every NAL unit emitted before that point is kept unchanged.
\* The walk is the whole of one step, so it terminates without an error when
\* the step can be taken from every state that stands before it.
C21_WalkStops ==
  /\ heic.pc = "annexB" => ENABLED heicAnnexB
  /\ heic.pc \in {"executor", "submitted"} => WalkKept

C21_Witness ==
  /\ heic.pc = "executor"
  /\ Truncated(gen)
  /\ gen.nls = 4 /\ gen.tail = "ones"
  /\ gen.chunk = <<Nal(10), Nal(3)>>
  /\ heic.error = "none"
  /\ Len(heic.annexB) = 4 + 5 + 4 + 7 + 4 + 10 + 4 + 3

\* The function is past the item loop and its checks, at the reformatter.
AtReformatter == heic.pc \in {"annexB", "executor", "submitted"}

\* C22: whenever the decode proceeds past item location to the reformatter,
\* the resolved location is a byte range inside the source buffer (0 <= offset
\* and offset + length <= buffer length), so the chunk handed to the
\* reformatter holds exactly length bytes of the file.
C22_LocationInsideBuffer ==
  AtReformatter =>
    /\ 0 <= heic.chunkOffset
    /\ heic.chunkOffset + heic.chunkLength <= Len(data)
    /\ Len(Slice(data, heic.chunkOffset, heic.chunkOffset + heic.chunkLength))
         = heic.chunkLength

(* ---------------------- claims: the iloc cursor ------------------------ *)

\* The bytes of one iloc entry as the claim reads the format: item id,
\* construction method (versions 1 and 2), data reference index, base offset
\* of base_offset_size bytes, extent count, and per extent offset_size and
\* length_size bytes.
EntryLength(g, it) ==
  IdBytes(g) + (IF g.ilocVer \in {1, 2} THEN 2 ELSE 0) + 2 + g.baseSz + 2
    + Len(it.exts) * (g.offSz + g.lenSz)

RECURSIVE EntriesLength(_, _, _)
EntriesLength(g, its, k) ==
  IF k = 0 THEN 0 ELSE EntriesLength(g, its, k - 1) + EntryLength(g, its[k])

\* Where the first entry starts: after ftyp, the header, version and flags of
\* meta, the pitm box, the header, version and flags of iloc, the two size
\* bytes and the item count.
FirstEntry(g) ==
  Len(FtypBox) + 12 + Len(PitmBox(g)) + 12 + 2 + IdBytes(g)

\* C20: iloc parsing consumes base_offset_size bytes for each item's base
\* offset and offset_size and length_size bytes for each extent, for every
\* value of those size fields, so the cursor stands at the start of every
\* following entry and, after the last one, at the end of the entries.
C20_CursorFollowsSizes ==
  (heic.pc = "items" /\ gen.family = "iloc") =>
    heic.ip = FirstEntry(gen) + EntriesLength(gen, Entries(gen), heic.i)

\* The same for the sizes 0, 4 and 8.
CursorFollowsValidSizes == ValidSizes(gen) => C20_CursorFollowsSizes

\* The photos a page holds.
PhotosOf(page) == { page.photos[k] : k \in 1..Len(page.photos) } \ { Null, Undefined }

\* C19: setLayout never loses content: for every page state and every target
\* layout, every photo on the page before the switch is on the page after it.
C19_LayoutKeepsPhotos ==
  [][\A side \in Sides, layout \in Layouts :
       setLayout(current, side, layout) =>
         PhotosOf(Page(current, side)) \subseteq PhotosOf(Page(current, side))']_vars


\* C30: by the time a decode attempt settles, by resolving on the first output
\* frame or by rejecting on a decoder error or a flush rejection, close() has
\* been called on its decoder: no submitted decoder is settled and still open.
C30_ClosedWhenSettled ==
  \A i \in DOMAIN vd :
    (vd[i].submitted /\ vd[i].settled # "pending") => vd[i].closed


\* C26: in read mode no viewer action (opening the book, go, goTo, the arrow
\* keys) schedules or performs persistSave: no save timer is pending and the
\* persisted record is still the viewer's own book.
C26_ReadModeNeverSaves ==
  isReadMode => (~saveTimer /\ mainRecord = "own")


\* The current index is a valid spread index.
CurrentValid == 0 <= current /\ current < Len(spreads)

\* C24: after any sequence of go and goTo with their midpoint and end events,
\* addPages, deletePage, tray reorders, resetBook and imports, the current
\* index is a valid spread index: 0 <= current < spreads.length.
C24_CurrentValid == CurrentValid

\* Every step other than an import keeps a valid current index valid.
CurrentKeptValid ==
  [][(CurrentValid /\ ~(\E d \in ImportFiles : importBook(d))) => CurrentValid']_vars

\* The identities of the spreads, in their order.
Ids(a) == [k \in 1..Len(a) |-> a[k].id]

\* Sequence b holds the elements of sequence a, each as often, in some order.
Permutation(a, b) ==
  /\ Len(a) = Len(b)
  /\ \A x \in { a[k] : k \in 1..Len(a) } :
       Cardinality({ k \in 1..Len(a) : a[k] = x }) =
       Cardinality({ k \in 1..Len(b) : b[k] = x })

\* C27: a tray reorder that moves the spread at index a >= 1 onto index
\* i >= 1, i # a, leaves spreads a permutation of what it was with the cover
\* still first, the dragged spread at index i, and current on the spread it
\* was on before the move, for every a, i and current.
C27_ReorderFollows ==
  [][\A i \in 0..(MaxSpreads - 1) :
       (trayDrop(i) /\ CurrentValid) =>
         /\ Permutation(spreads, spreads')
         /\ spreads'[1] = spreads[1]
         /\ spreads'[i + 1] = spreads[trayDragIdx + 1]
         /\ CurrentValid'
         /\ spreads'[current' + 1] = spreads[current + 1]]_vars

\* The book after a tray reorder of the initial book: its two spreads have
\* changed places and current, which was on the last one, has followed it.
C27_Witness ==
  /\ Ids(spreads) = <<0, 2, 1>>
  /\ current = 1
  /\ trayDragIdx = NoDrag
  /\ saveTimer

\* spreads[0] is the cover and at least one other spread exists.
CoverFirst ==
  /\ Len(spreads) >= 2
  /\ spreads[1].type = "cover"
  /\ \A k \in 2..Len(spreads) : spreads[k].type = "spread"

\* C28: after any sequence of addPages, deletePage, tray reorders and
\* resetBook, spreads[0] is the cover and spreads.length >= 2; deletePage has
\* no effect when current is 0, when one spread remains or while a flip is
\* animating, and otherwise removes the current spread and nothing else.
C28_CoverKept ==
  /\ []CoverFirst
  /\ [][deletePage =>
          IF current = 0 \/ Len(spreads) <= 2 \/ animating
          THEN spreads' = spreads /\ current' = current
          ELSE /\ Len(spreads') = Len(spreads) - 1
               /\ \A k \in 1..Len(spreads') :
                    spreads'[k] = IF k <= current THEN spreads[k] ELSE spreads[k + 1]]_vars

\* The initial book after the deletion of its first spread.
C28_Witness ==
  /\ Ids(spreads) = <<0, 2>>
  /\ current = 1
  /\ ~animating
  /\ saveTimer


\* C23: every page flip started by go() finishes: finishFlip eventually runs
\* and resets animating to false, whatever else happens between the start of
\* the flip and its animationend (a render() for an upload that completes,
\* among others); navigation is never left blocked with animating = true.
C23_FlipFinishes == animating ~> ~animating


\* C25: for every page of every spread, photos.length is
\* LAYOUT_PHOTO_COUNT[layout], in every interleaving of setLayout with the
\* completions of uploads, which write photos[pi] at the indices captured
\* when the file was chosen.
C25_PhotosMatchLayout ==
  \A k \in 2..Len(spreads) : \A side \in Sides :
    Len(Page(k - 1, side).photos) = LAYOUT_PHOTO_COUNT(Page(k - 1, side).layout)


\* C29: a crop stays with the photo it was saved for: the crop a photo of the
\* spread shown is drawn with is the one saved for that photo, or the default
\* crop; it is never the crop that was saved for another photo.
C29_CropFollowsPhoto ==
  (bookMode = "open" /\ current >= 1 /\ current < Len(spreads)) =>
    \A side \in Sides : \A k \in 1..Len(Page(current, side).photos) :
      ~Falsy(Page(current, side).photos[k]) =>
        getCrop(current, side, k - 1) \in
          {DefaultCrop, CropFor(Page(current, side).photos[k])}

=========================================================================
